---- MODULE Spec2Model ----
(***************************************************************************)
(* UncClickable: model of the UNC matching and policy-evaluation core      *)
(* (src/src/utils/unc-matcher.js) and of the callers that drive it.        *)
(*                                                                         *)
(* A JavaScript string is a sequence of UTF-16 code units (naturals).      *)
(* A JavaScript value that may also be null or undefined is a record       *)
(* [type, v]: type is "string", "array", "null" or "undefined" and v is    *)
(* the sequence of code units (string), of items (array) or <<>>.          *)
(* The document is a sequence of nodes; node 1 is document.body, a node's   *)
(* parent and childNodes hold ids, and id 0 stands for null.               *)
(***************************************************************************)
EXTENDS Integers, Sequences, FiniteSets, TLC

VARIABLES
    pc,     \* "call": the arguments are bound; "return": the call has ended
    fn,     \* the function of the core being called
    args,   \* its arguments, a record named after the parameters
    ret,    \* how the call ended: [kind, value], kind "return" or "throw"
    dom,    \* the document: the sequence of its nodes, a node's id its index
    config, \* the content script's configuration {scheme, htmlElements, ...}
    isActive,        \* the content script's flag for the current page
    activeElements,  \* the tags the content script converts on this page
    observing,       \* the MutationObserver is set up on document.body
    records,         \* the mutation records not yet delivered to it
    lastIndex,       \* the lastIndex of the two regex objects of unc-matcher.js
    prev,            \* the call of the core made before this one: [fn, args]
    storage,         \* storage.sync: the keys it holds and their values
    tabs,            \* the open tabs: their URL, icon and title
    calls,           \* the browser API calls the last handler made, in order
                     \* (in SpecIcons: the calls still awaited)
    form,            \* the options page: its fields and the rendered URL rows
    activeUrlsState, \* let activeUrlsState of options.js
    status           \* the status element of the options page

\* the state of the content script
script == <<config, isActive, activeElements, observing, records>>

\* the state of the page and of the content script in it
page == <<dom, script>>

\* the state of the module unc-matcher.js and the call before this one
core == <<lastIndex, prev>>

\* the state of the extension around the page: storage, the browser's tabs
\* and the options page
extension == <<storage, tabs, calls, form, activeUrlsState, status>>

vars == <<pc, fn, args, ret, page, core, extension>>

----------------------------------------------------------------------------
(* Bounds of the model *)

\* every string over the alphabet up to this length is an input
MaxLen == 3
\* lengths MAX_PATH - Margin .. MAX_PATH + Margin are inputs too
Margin == 1
\* every string of separators and letters up to this length is converted
MaxConvLen == 4
\* the longest candidate UNC path and page URL given to the matchers
MaxPathLen == 3
\* the longest configured prefix
MaxPrefixLen == 2
\* the longest configured list
MaxList == 2
\* the longest default element string
MaxDefaultLen == 4
\* the most ancestors between document.body and an element
MaxDepth == 2
\* the most subtrees in document.body when the content script starts
MaxElems == 1
\* the most nodes the document grows to
MaxNodes == 7
\* the most characters after the two backslashes of a path passed to the core
MaxTail == 2

----------------------------------------------------------------------------
(* Code units *)

BACKSLASH == 92
SLASH == 47
COLON == 58
LOWER_A == 97
UPPER_A == 65
LOWER_P == 112
SEMICOLON == 59
SPACE == 32

\* the minimum and maximum length of a UNC path
MIN_PATH == 3
MAX_PATH == 260

----------------------------------------------------------------------------
(* JavaScript values and string primitives *)

Str(s) == [type |-> "string", v |-> s]
Null == [type |-> "null", v |-> <<>>]
Undefined == [type |-> "undefined", v |-> <<>>]

Return(value) == [kind |-> "return", value |-> value]
Throw(error) == [kind |-> "throw", value |-> error]
NoRet == [kind |-> "none", value |-> FALSE]

Array(items) == [type |-> "array", v |-> items]

\* ToBoolean: `!x` is its negation; an array is truthy even when empty
ToBoolean(x) ==
    \/ x.type = "string" /\ Len(x.v) > 0
    \/ x.type = "array"

\* reading a property of null or undefined throws a TypeError
IsNullish(x) == x.type \in {"null", "undefined"}

\* String.prototype.startsWith
startsWith(s, p) == Len(s) >= Len(p) /\ SubSeq(s, 1, Len(p)) = p

\* String.prototype.endsWith
endsWith(s, p) ==
    Len(s) >= Len(p) /\ SubSeq(s, Len(s) - Len(p) + 1, Len(s)) = p

\* String.prototype.substring(start), start counted from 0
substring(s, start) == SubSeq(s, start + 1, Len(s))

\* String.prototype.toLowerCase on the Basic Latin letters
CharToLowerCase(c) == IF c \in 65..90 THEN c + 32 ELSE c

\* toLowerCase left out: the string as it is
toLowerCase_Identity(s) == s

toLowerCase(s) == [i \in 1..Len(s) |-> CharToLowerCase(s[i])]

\* the code units String.prototype.trim strips: WhiteSpace and LineTerminator
WHITESPACE ==
    {9, 10, 11, 12, 13, 32, 160, 5760, 8232, 8233, 8239, 8287, 12288, 65279}
        \cup 8192..8202

\* String.prototype.trim
trim(s) ==
    LET kept == {i \in 1..Len(s) : s[i] \notin WHITESPACE}
    IN  IF kept = {} THEN <<>>
        ELSE SubSeq(s, CHOOSE i \in kept : \A j \in kept : i <= j,
                       CHOOSE i \in kept : \A j \in kept : i >= j)

\* String.prototype.split(sep) for a separator of one code unit
RECURSIVE split(_, _)
split(s, sep) ==
    LET at == {i \in 1..Len(s) : s[i] = sep}
    IN  IF at = {} THEN <<s>>
        ELSE LET first == CHOOSE i \in at : \A j \in at : i <= j
             IN  <<SubSeq(s, 1, first - 1)>>
                     \o split(SubSeq(s, first + 1, Len(s)), sep)

\* RegExp.prototype.test for a regex that is one character class (the set of
\* the code units it matches) without flags
RegexTest(class, s) == \E i \in 1..Len(s) : s[i] \in class

----------------------------------------------------------------------------
(* The DOM *)

ELEMENT_NODE == 1
TEXT_NODE == 3

\* tag names as tagName reports them for HTML elements, in capitals
TAG_A == <<65>>
TAG_P == <<80>>
TAG_DIV == <<68, 73, 86>>
TAG_INPUT == <<73, 78, 80, 85, 84>>
TAG_TEXTAREA == <<84, 69, 88, 84, 65, 82, 69, 65>>
TAG_BODY == <<66, 79, 68, 89>>

\* the values of the contenteditable attribute: 'true' and 'false'
ATTR_TRUE == <<116, 114, 117, 101>>
ATTR_FALSE == <<102, 97, 108, 115, 101>>

\* a node: nodeType, tagName (elements), parent and childNodes (ids), data
\* (text and comment nodes), what getAttribute('contenteditable') and
\* getAttribute('href') return, and the isContentEditable property
Node(nodeType, tagName, parent, data, contenteditable, isContentEditable, href) ==
    [nodeType |-> nodeType, tagName |-> tagName, parent |-> parent,
     childNodes |-> <<>>, data |-> data, contenteditable |-> contenteditable,
     isContentEditable |-> isContentEditable, href |-> href]

\* document.body and its id
BodyId == 1
Body == Node(ELEMENT_NODE, TAG_BODY, 0, <<>>, Null, FALSE, Null)

\* a document with an empty body
EmptyDocument == <<Body>>

\* a subtree to be inserted: a node without its place, and its children
Tree(nodeType, tagName, data, contenteditable, isContentEditable, kids) ==
    [nodeType |-> nodeType, tagName |-> tagName, data |-> data,
     contenteditable |-> contenteditable,
     isContentEditable |-> isContentEditable, kids |-> kids]

TextTree(data) == Tree(TEXT_NODE, <<>>, data, Null, FALSE, <<>>)
CommentTree(data) == Tree(8, <<>>, data, Null, FALSE, <<>>)
ElementTree(tagName, contenteditable, isContentEditable, kids) ==
    Tree(ELEMENT_NODE, tagName, <<>>, contenteditable, isContentEditable, kids)

\* parent.appendChild of the subtree t: the nodes of t get the next free ids,
\* the root of t first
RECURSIVE appendChild(_, _, _)
appendChild(d, parent, t) ==
    LET id == Len(d) + 1
        root == Node(t.nodeType, t.tagName, parent, t.data, t.contenteditable,
                     t.isContentEditable, Null)
        placed == Append([d EXCEPT ![parent].childNodes = Append(@, id)], root)
        RECURSIVE AppendKids(_, _)
        AppendKids(dd, k) ==
            IF k > Len(t.kids) THEN dd
            ELSE AppendKids(appendChild(dd, id, t.kids[k]), k + 1)
    IN  AppendKids(placed, 1)

\* Node.parentElement: the parent when it is an element, else null (0)
parentElement(d, n) ==
    IF d[n].parent # 0 /\ d[d[n].parent].nodeType = ELEMENT_NODE
    THEN d[n].parent ELSE 0

\* Node.textContent of a text or comment node: its data; of an element: the
\* data of its text descendants in document order
RECURSIVE textContent(_, _)
textContent(d, n) ==
    IF d[n].nodeType # ELEMENT_NODE THEN d[n].data
    ELSE LET RECURSIVE Concat(_)
             Concat(k) ==
                IF k > Len(d[n].childNodes) THEN <<>>
                ELSE LET c == d[n].childNodes[k]
                     IN  (IF d[c].nodeType = 8 THEN <<>> ELSE textContent(d, c))
                            \o Concat(k + 1)
         IN  Concat(1)

----------------------------------------------------------------------------
(* src/src/utils/unc-matcher.js *)

\* the class with the control range ending one short, at \x1E
FORBIDDEN_CHARS_REGEX_ShortRange ==
    {60, 62, 58, 34, 124, 63, 42} \cup 0..30

\* /[<>:"|?*\x00-\x1F]/
FORBIDDEN_CHARS_REGEX == {60, 62, 58, 34, 124, 63, 42} \cup 0..31

\* /[\r\n]/
NEWLINE_REGEX == {13, 10}

\* the forbidden characters searched with the global flag set
FORBIDDEN_CHARS_FLAGS_Global == {"g"}

\* the flags of the two regex literals: none
FORBIDDEN_CHARS_FLAGS == {}
NEWLINE_FLAGS == {}

\* the module when it has been evaluated: both regex objects at lastIndex 0,
\* and no call made
NoCall == [fn |-> "none", args |-> <<>>]
CoreLoaded ==
    /\ lastIndex = [FORBIDDEN_CHARS_REGEX |-> 0, NEWLINE_REGEX |-> 0]
    /\ prev = NoCall

\* RegExp.prototype.test on a regex object that is one character class: the
\* search starts at lastIndex when the global or the sticky flag is set and at
\* 0 otherwise, and only then lastIndex is written: the end of the match, or
\* 0 when nothing matches
RegExpTest(class, flags, index, s) ==
    LET stateful == flags \cap {"g", "y"} # {}
        start == IF stateful THEN index ELSE 0
        matches == {i \in (start + 1)..Len(s) : s[i] \in class}
    IN  IF matches = {}
        THEN [result |-> FALSE, lastIndex |-> IF stateful THEN 0 ELSE index]
        ELSE [result |-> TRUE,
              lastIndex |-> IF stateful
                            THEN CHOOSE i \in matches : \A j \in matches : i <= j
                            ELSE index]

\* isValidUncPath run on the regex objects as they are: what it returns and
\* the lastIndex of both after it
isValidUncPathAt(text, indices) ==
    IF ~ToBoolean(text) THEN [ret |-> Return(FALSE), lastIndex |-> indices]
    ELSE IF IsNullish(text) THEN [ret |-> Throw("TypeError"), lastIndex |-> indices]
    ELSE IF Len(text.v) < MIN_PATH \/ Len(text.v) > MAX_PATH
         THEN [ret |-> Return(FALSE), lastIndex |-> indices]
    ELSE IF ~startsWith(text.v, <<BACKSLASH, BACKSLASH>>)
         THEN [ret |-> Return(FALSE), lastIndex |-> indices]
    ELSE LET newline == RegExpTest(NEWLINE_REGEX, NEWLINE_FLAGS,
                                   indices.NEWLINE_REGEX, text.v)
             afterNewline == [indices EXCEPT !.NEWLINE_REGEX = newline.lastIndex]
         IN  IF newline.result THEN [ret |-> Return(FALSE), lastIndex |-> afterNewline]
             ELSE LET forbidden == RegExpTest(FORBIDDEN_CHARS_REGEX, FORBIDDEN_CHARS_FLAGS,
                                      indices.FORBIDDEN_CHARS_REGEX, substring(text.v, 2))
                      afterBoth == [afterNewline EXCEPT
                                      !.FORBIDDEN_CHARS_REGEX = forbidden.lastIndex]
                  IN  [ret |-> Return(~forbidden.result), lastIndex |-> afterBoth]

\* the length check without `!text` in front of it
isValidUncPath_NoFalsyGuard(text) ==
    IF IsNullish(text) THEN Throw("TypeError")
    ELSE IF Len(text.v) < MIN_PATH \/ Len(text.v) > MAX_PATH THEN Return(FALSE)
    ELSE IF ~startsWith(text.v, <<BACKSLASH, BACKSLASH>>) THEN Return(FALSE)
    ELSE IF RegexTest(NEWLINE_REGEX, text.v) THEN Return(FALSE)
    ELSE IF RegexTest(FORBIDDEN_CHARS_REGEX, substring(text.v, 2))
         THEN Return(FALSE)
    ELSE Return(TRUE)

\* the upper length check written >= instead of >
isValidUncPath_OffByOne(text) ==
    IF ~ToBoolean(text) THEN Return(FALSE)
    ELSE IF IsNullish(text) THEN Throw("TypeError")
    ELSE IF Len(text.v) < MIN_PATH \/ Len(text.v) >= MAX_PATH THEN Return(FALSE)
    ELSE IF ~startsWith(text.v, <<BACKSLASH, BACKSLASH>>) THEN Return(FALSE)
    ELSE IF RegexTest(NEWLINE_REGEX, text.v) THEN Return(FALSE)
    ELSE IF RegexTest(FORBIDDEN_CHARS_REGEX, substring(text.v, 2))
         THEN Return(FALSE)
    ELSE Return(TRUE)

\* startsWith('\\') given one backslash instead of two
isValidUncPath_OneBackslash(text) ==
    IF ~ToBoolean(text) THEN Return(FALSE)
    ELSE IF IsNullish(text) THEN Throw("TypeError")
    ELSE IF Len(text.v) < MIN_PATH \/ Len(text.v) > MAX_PATH THEN Return(FALSE)
    ELSE IF ~startsWith(text.v, <<BACKSLASH>>) THEN Return(FALSE)
    ELSE IF RegexTest(NEWLINE_REGEX, text.v) THEN Return(FALSE)
    ELSE IF RegexTest(FORBIDDEN_CHARS_REGEX, substring(text.v, 2))
         THEN Return(FALSE)
    ELSE Return(TRUE)

isValidUncPath(text) ==
    IF ~ToBoolean(text) THEN Return(FALSE)
    ELSE IF IsNullish(text) THEN Throw("TypeError")
    ELSE IF Len(text.v) < MIN_PATH \/ Len(text.v) > MAX_PATH THEN Return(FALSE)
    ELSE IF ~startsWith(text.v, <<BACKSLASH, BACKSLASH>>) THEN Return(FALSE)
    ELSE IF RegexTest(NEWLINE_REGEX, text.v) THEN Return(FALSE)
    ELSE IF RegexTest(FORBIDDEN_CHARS_REGEX, substring(text.v, 2))
         THEN Return(FALSE)
    ELSE Return(TRUE)

\* the trailing-backslash branch testing the path as written, not lowercased
isUncAllowed_BranchCased(uncPath, allowedPrefixes) ==
    IF ~ToBoolean(allowedPrefixes) \/ Len(allowedPrefixes.v) = 0 THEN TRUE
    ELSE LET uncLower == toLowerCase(uncPath)
         IN  \E k \in 1..Len(allowedPrefixes.v) :
                LET prefixLower == toLowerCase(allowedPrefixes.v[k])
                IN  IF uncLower = prefixLower THEN TRUE
                    ELSE IF endsWith(prefixLower, <<BACKSLASH>>)
                         THEN startsWith(uncPath, prefixLower)
                    ELSE startsWith(uncLower, prefixLower)

\* the matcher without the length test: some() on an empty array is false
isUncAllowed_NoEmptyTest(uncPath, allowedPrefixes) ==
    IF ~ToBoolean(allowedPrefixes) THEN TRUE
    ELSE LET uncLower == toLowerCase(uncPath)
         IN  \E k \in 1..Len(allowedPrefixes.v) :
                LET prefixLower == toLowerCase(allowedPrefixes.v[k])
                IN  IF uncLower = prefixLower THEN TRUE
                    ELSE startsWith(uncLower, prefixLower)

\* the trailing-backslash branch comparing without the backslash
isUncAllowed_BackslashDropped(uncPath, allowedPrefixes) ==
    IF ~ToBoolean(allowedPrefixes) \/ Len(allowedPrefixes.v) = 0 THEN TRUE
    ELSE LET uncLower == toLowerCase(uncPath)
         IN  \E k \in 1..Len(allowedPrefixes.v) :
                LET prefixLower == toLowerCase(allowedPrefixes.v[k])
                IN  IF uncLower = prefixLower THEN TRUE
                    ELSE IF endsWith(prefixLower, <<BACKSLASH>>)
                         THEN startsWith(uncLower,
                                  SubSeq(prefixLower, 1, Len(prefixLower) - 1))
                    ELSE startsWith(uncLower, prefixLower)

\* the branch without trailing backslash matching whole components only
isUncAllowed_ComponentMatch(uncPath, allowedPrefixes) ==
    IF ~ToBoolean(allowedPrefixes) \/ Len(allowedPrefixes.v) = 0 THEN TRUE
    ELSE LET uncLower == toLowerCase(uncPath)
         IN  \E k \in 1..Len(allowedPrefixes.v) :
                LET prefixLower == toLowerCase(allowedPrefixes.v[k])
                IN  IF uncLower = prefixLower THEN TRUE
                    ELSE IF endsWith(prefixLower, <<BACKSLASH>>)
                         THEN startsWith(uncLower, prefixLower)
                    ELSE startsWith(uncLower, prefixLower \o <<BACKSLASH>>)

\* allowedPrefixes.some(prefix => ...) after the test for no restriction
isUncAllowed(uncPath, allowedPrefixes) ==
    IF ~ToBoolean(allowedPrefixes) \/ Len(allowedPrefixes.v) = 0 THEN TRUE
    ELSE LET uncLower == toLowerCase(uncPath)
         IN  \E k \in 1..Len(allowedPrefixes.v) :
                LET prefixLower == toLowerCase(allowedPrefixes.v[k])
                IN  IF uncLower = prefixLower THEN TRUE
                    ELSE IF endsWith(prefixLower, <<BACKSLASH>>)
                         THEN startsWith(uncLower, prefixLower)
                    ELSE startsWith(uncLower, prefixLower)

\* allowedUrls.some(allowedUrl => ...) after the test for no restriction
isUrlAllowed(currentUrl, allowedUrls) ==
    IF ~ToBoolean(allowedUrls) \/ Len(allowedUrls.v) = 0 THEN TRUE
    ELSE LET currentLower == toLowerCase(currentUrl)
         IN  \E k \in 1..Len(allowedUrls.v) :
                LET allowedLower == toLowerCase(allowedUrls.v[k])
                IN  startsWith(currentLower, allowedLower)

----------------------------------------------------------------------------
(* src/options/options.js *)

\* text.split(';').map(el => el.trim().toLowerCase()).filter(el => el.length > 0)
\* the parsing with the empty segments kept
parseHtmlElements_KeepsEmpty(text) ==
    LET segments == split(text, SEMICOLON)
    IN  [i \in 1..Len(segments) |-> toLowerCase(trim(segments[i]))]

parseHtmlElements(text) ==
    LET segments == split(text, SEMICOLON)
        mapped == [i \in 1..Len(segments) |-> toLowerCase(trim(segments[i]))]
    IN  SelectSeq(mapped, LAMBDA el : Len(el) > 0)

\* the default elements returned unparsed, as one tag
getActiveUrlEntry_Unparsed(currentUrl, activeUrls, defaultElements) ==
    [type |-> "object", url |-> <<>>, elements |-> <<defaultElements>>]

\* Array.prototype.join(sep) on an array of strings
RECURSIVE join(_, _)
join(arr, sep) ==
    IF Len(arr) = 0 THEN <<>>
    ELSE IF Len(arr) = 1 THEN arr[1]
    ELSE arr[1] \o <<sep>> \o join(Tail(arr), sep)

\* arr.join(';')
htmlElementsToString(arr) == join(arr, SEMICOLON)

----------------------------------------------------------------------------
(* getActiveUrlEntry of src/src/utils/unc-matcher.js, of which the source   *)
(* holds the callers and the tests only: modelled from spec.md section 4.3  *)

\* a scope entry {url, elements}; elements is an array of tags or undefined
ScopeEntry(url, elements) == [url |-> url, elements |-> elements]

\* the match result: an object {url, elements} or null
MatchResult(url, elements) == [type |-> "object", url |-> url, elements |-> elements]
NoMatch == [type |-> "null", url |-> <<>>, elements |-> <<>>]

\* the lookup comparing the lowercased URLs for equality
getActiveUrlEntry_ExactUrl(currentUrl, activeUrls, defaultElements) ==
    IF ~ToBoolean(activeUrls) \/ Len(activeUrls.v) = 0
    THEN MatchResult(<<>>, parseHtmlElements(defaultElements))
    ELSE LET currentLower == toLowerCase(currentUrl)
             matching == {k \in 1..Len(activeUrls.v) :
                            currentLower = toLowerCase(activeUrls.v[k].url)}
         IN  IF matching = {} THEN NoMatch
             ELSE LET entry == activeUrls.v[CHOOSE k \in matching :
                                                \A j \in matching : k <= j]
                  IN  MatchResult(entry.url,
                          IF entry.elements.type = "undefined"
                          THEN parseHtmlElements(defaultElements)
                          ELSE entry.elements.v)

\* the lookup keeping the last matching entry instead of the first
getActiveUrlEntry_LastMatch(currentUrl, activeUrls, defaultElements) ==
    IF ~ToBoolean(activeUrls) \/ Len(activeUrls.v) = 0
    THEN MatchResult(<<>>, parseHtmlElements(defaultElements))
    ELSE LET currentLower == toLowerCase(currentUrl)
             matching == {k \in 1..Len(activeUrls.v) :
                            startsWith(currentLower, toLowerCase(activeUrls.v[k].url))}
         IN  IF matching = {} THEN NoMatch
             ELSE LET entry == activeUrls.v[CHOOSE k \in matching :
                                                \A j \in matching : k >= j]
                  IN  MatchResult(entry.url,
                          IF entry.elements.type = "undefined"
                          THEN parseHtmlElements(defaultElements)
                          ELSE entry.elements.v)

\* the lookup falling back to the defaults for an empty elements list too
getActiveUrlEntry_EmptyFallsBack(currentUrl, activeUrls, defaultElements) ==
    IF ~ToBoolean(activeUrls) \/ Len(activeUrls.v) = 0
    THEN MatchResult(<<>>, parseHtmlElements(defaultElements))
    ELSE LET currentLower == toLowerCase(currentUrl)
             matching == {k \in 1..Len(activeUrls.v) :
                            startsWith(currentLower, toLowerCase(activeUrls.v[k].url))}
         IN  IF matching = {} THEN NoMatch
             ELSE LET entry == activeUrls.v[CHOOSE k \in matching :
                                                \A j \in matching : k <= j]
                  IN  MatchResult(entry.url,
                          IF entry.elements.type = "undefined"
                                \/ Len(entry.elements.v) = 0
                          THEN parseHtmlElements(defaultElements)
                          ELSE entry.elements.v)

getActiveUrlEntry(currentUrl, activeUrls, defaultElements) ==
    IF ~ToBoolean(activeUrls) \/ Len(activeUrls.v) = 0
    THEN MatchResult(<<>>, parseHtmlElements(defaultElements))
    ELSE LET currentLower == toLowerCase(currentUrl)
             matching == {k \in 1..Len(activeUrls.v) :
                            startsWith(currentLower, toLowerCase(activeUrls.v[k].url))}
         IN  IF matching = {} THEN NoMatch
             ELSE LET entry == activeUrls.v[CHOOSE k \in matching :
                                                \A j \in matching : k <= j]
                  IN  MatchResult(entry.url,
                          IF entry.elements.type = "undefined"
                          THEN parseHtmlElements(defaultElements)
                          ELSE entry.elements.v)

----------------------------------------------------------------------------
(* src/src/utils/unc-matcher.js, continued *)

\* String.prototype.replace(/\\/g, '/'): every backslash becomes a slash
ReplaceBackslashes(s) ==
    [i \in 1..Len(s) |-> IF s[i] = BACKSLASH THEN SLASH ELSE s[i]]

\* replace without the g flag: only the first backslash becomes a slash
ReplaceFirstBackslash(s) ==
    [i \in 1..Len(s) |->
        IF s[i] = BACKSLASH /\ (\A j \in 1..(i - 1) : s[j] # BACKSLASH)
        THEN SLASH ELSE s[i]]

\* the conversion cutting three characters off the path instead of two
convertUncToUrl_ThreeCut(uncPath, scheme) ==
    LET pathPart == ReplaceBackslashes(substring(uncPath, 3))
    IN  scheme \o <<COLON, SLASH, SLASH>> \o pathPart

\* the conversion with a replace that lacks the g flag
convertUncToUrl_FirstOnly(uncPath, scheme) ==
    scheme \o <<COLON, SLASH, SLASH>> \o ReplaceFirstBackslash(substring(uncPath, 2))

convertUncToUrl(uncPath, scheme) ==
    LET pathPart == ReplaceBackslashes(substring(uncPath, 2))
    IN  scheme \o <<COLON, SLASH, SLASH>> \o pathPart

\* one turn of the loop of isElementEditable on the node current
EditableHere(d, current) ==
    \/ d[current].isContentEditable
    \/ toLowerCase(d[current].tagName) \in {toLowerCase(TAG_INPUT), toLowerCase(TAG_TEXTAREA)}
    \/ d[current].contenteditable \in {Str(ATTR_TRUE), Str(<<>>)}

\* the check of the element alone, its ancestors not walked
isElementEditable_SelfOnly(d, element) ==
    element # 0 /\ element # BodyId /\ EditableHere(d, element)

\* while (current && current !== document.body) { ... current.parentElement }
RECURSIVE isElementEditable(_, _)
isElementEditable(d, current) ==
    IF current = 0 \/ current = BodyId THEN FALSE
    ELSE IF EditableHere(d, current) THEN TRUE
    ELSE isElementEditable(d, parentElement(d, current))

\* the result {valid, text}; text is undefined when the field is absent
Validation(valid, text) == [valid |-> valid, text |-> text]

\* the validation reading the first child without counting the children
validateCodeElement_FirstChild(d, element) ==
    IF isElementEditable(d, element) THEN Validation(FALSE, Undefined)
    ELSE IF Len(d[element].childNodes) = 0 THEN Validation(FALSE, Undefined)
    ELSE LET child == d[element].childNodes[1]
         IN  IF d[child].nodeType # TEXT_NODE THEN Validation(FALSE, Undefined)
             ELSE LET text == textContent(d, child)
                  IN  IF isValidUncPath(Str(text)) # Return(TRUE)
                      THEN Validation(FALSE, Undefined)
                      ELSE Validation(TRUE, Str(text))

validateCodeElement(d, element) ==
    IF isElementEditable(d, element) THEN Validation(FALSE, Undefined)
    ELSE IF Len(d[element].childNodes) # 1 THEN Validation(FALSE, Undefined)
    ELSE LET child == d[element].childNodes[1]
         IN  IF d[child].nodeType # TEXT_NODE THEN Validation(FALSE, Undefined)
             ELSE LET text == textContent(d, child)
                  IN  IF isValidUncPath(Str(text)) # Return(TRUE)
                      THEN Validation(FALSE, Undefined)
                      ELSE Validation(TRUE, Str(text))

----------------------------------------------------------------------------
(* src/unnamed/part_004: the content script *)

\* 'uncopener' and 'code', the defaults
DEFAULT_SCHEME == <<117, 110, 99, 111, 112, 101, 110, 101, 114>>
DEFAULT_ELEMENTS == <<99, 111, 100, 101>>
TAG_CODE == <<67, 79, 68, 69>>

Config(scheme, htmlElements, activeUrls, allowedUncs) ==
    [scheme |-> scheme, htmlElements |-> htmlElements,
     activeUrls |-> activeUrls, allowedUncs |-> allowedUncs]

\* let config = {...}
DefaultConfig == Config(DEFAULT_SCHEME, DEFAULT_ELEMENTS, Array(<<>>), Array(<<>>))

\* the module state when the script has been evaluated and init not yet run
ScriptLoaded ==
    /\ config = DefaultConfig
    /\ isActive = FALSE
    /\ activeElements = <<>>
    /\ observing = FALSE
    /\ records = <<>>

\* a MutationRecord of type childList
MutationRecord(target, addedNodes) ==
    [type |-> "childList", target |-> target, addedNodes |-> addedNodes]

\* the document and the records its observer has queued
World(d, recs, obs) == [dom |-> d, records |-> recs, observing |-> obs]

\* the observer queues a record when it is set up
Observe(w, d, record) ==
    World(d, IF w.observing THEN Append(w.records, record) ELSE w.records,
          w.observing)

\* the nodes below and including n in document order
RECURSIVE Preorder(_, _)
Preorder(d, n) ==
    LET RECURSIVE Kids(_)
        Kids(k) == IF k > Len(d[n].childNodes) THEN <<>>
                   ELSE Preorder(d, d[n].childNodes[k]) \o Kids(k + 1)
    IN  <<n>> \o Kids(1)

\* root.querySelectorAll(tags.join(', ')) for tag names: the elements below
\* root, in document order; root 0 is the document
querySelectorAll(d, root, tags) ==
    LET below == IF root = 0 THEN Preorder(d, BodyId) ELSE Tail(Preorder(d, root))
    IN  SelectSeq(below, LAMBDA n :
            /\ d[n].nodeType = ELEMENT_NODE
            /\ \E k \in 1..Len(tags) : toLowerCase(d[n].tagName) = tags[k])

\* element.textContent = '': the children leave the element
RECURSIVE Detach(_, _, _)
Detach(d, children, k) ==
    IF k > Len(children) THEN d
    ELSE Detach([d EXCEPT ![children[k]].parent = 0], children, k + 1)

ClearChildren(d, element) ==
    [Detach(d, d[element].childNodes, 1) EXCEPT ![element].childNodes = <<>>]

\* the link with the URL as its text
AppendLink_UrlAsText(d, element, url, text) ==
    LET link == Len(d) + 1
        appended == appendChild(d, element,
                        ElementTree(TAG_A, Null, FALSE, <<TextTree(url)>>))
    IN  [appended EXCEPT ![link].href = Str(url)]

\* the link: createElement('a'), href and textContent set, then appended
AppendLink(d, element, url, text) ==
    LET link == Len(d) + 1
        appended == appendChild(d, element,
                        ElementTree(TAG_A, Null, FALSE, <<TextTree(text)>>))
    IN  [appended EXCEPT ![link].href = Str(url)]

\* processCodeElement: the world after it and what it returns
Processed(w, result) == [world |-> w, result |-> result]

\* the conversion without the allowlist
processCodeElement_NoAllowlist(w, cfg, codeElement) ==
    LET validation == validateCodeElement(w.dom, codeElement)
    IN  IF ~validation.valid THEN Processed(w, FALSE)
        ELSE LET text == validation.text.v
                 url == convertUncToUrl(text, cfg.scheme)
                 cleared == Observe(w, ClearChildren(w.dom, codeElement),
                                MutationRecord(codeElement, <<>>))
                 link == Len(w.dom) + 1
                 linked == Observe(cleared,
                               AppendLink(cleared.dom, codeElement, url, text),
                               MutationRecord(codeElement, <<link>>))
             IN  Processed(linked, TRUE)

processCodeElement(w, cfg, codeElement) ==
    LET validation == validateCodeElement(w.dom, codeElement)
    IN  IF ~validation.valid THEN Processed(w, FALSE)
        ELSE LET text == validation.text.v
             IN  IF ~isUncAllowed(text, cfg.allowedUncs) THEN Processed(w, FALSE)
                 ELSE LET url == convertUncToUrl(text, cfg.scheme)
                          cleared == Observe(w, ClearChildren(w.dom, codeElement),
                                         MutationRecord(codeElement, <<>>))
                          link == Len(w.dom) + 1
                          linked == Observe(cleared,
                                        AppendLink(cleared.dom, codeElement, url, text),
                                        MutationRecord(codeElement, <<link>>))
                      IN  Processed(linked, TRUE)

\* elements.forEach(element => { if (processCodeElement(element)) count++ })
RECURSIVE ForEachElement(_, _, _, _, _)
ForEachElement(w, cfg, elements, k, count) ==
    IF k > Len(elements) THEN Processed(w, count)
    ELSE LET done == processCodeElement(w, cfg, elements[k])
         IN  ForEachElement(done.world, cfg, elements, k + 1,
                            IF done.result THEN count + 1 ELSE count)

processCodeElements(w, cfg, active, tags, root) ==
    IF ~active \/ Len(tags) = 0 THEN Processed(w, 0)
    ELSE ForEachElement(w, cfg, querySelectorAll(w.dom, root, tags), 1, 0)

\* the callback that does not ask whether the page is active and goes by
\* the tags of config.htmlElements
processAddedNode_Ungated(w, cfg, active, tags, node) ==
    IF w.dom[node].nodeType # ELEMENT_NODE THEN w
    ELSE LET all == parseHtmlElements(cfg.htmlElements)
             tagName == toLowerCase(w.dom[node].tagName)
             self == IF Len(tagName) > 0 /\ \E k \in 1..Len(all) : all[k] = tagName
                     THEN processCodeElement(w, cfg, node).world
                     ELSE w
         IN  processCodeElements(self, cfg, TRUE, all, node).world

\* the added node converted whatever its tag
processAddedNode_AnyTag(w, cfg, active, tags, node) ==
    IF ~active \/ Len(tags) = 0 THEN w
    ELSE IF w.dom[node].nodeType # ELEMENT_NODE THEN w
    ELSE processCodeElements(processCodeElement(w, cfg, node).world,
                             cfg, active, tags, node).world

processAddedNode(w, cfg, active, tags, node) ==
    IF ~active \/ Len(tags) = 0 THEN w
    ELSE IF w.dom[node].nodeType # ELEMENT_NODE THEN w
    ELSE LET tagName == toLowerCase(w.dom[node].tagName)
             self == IF Len(tagName) > 0 /\ \E k \in 1..Len(tags) : tags[k] = tagName
                     THEN processCodeElement(w, cfg, node).world
                     ELSE w
         IN  processCodeElements(self, cfg, active, tags, node).world

\* for (const mutation of mutations) mutation.addedNodes.forEach(processAddedNode)
RECURSIVE ForEachMutation(_, _, _, _, _, _, _)
ForEachMutation(w, cfg, active, tags, mutations, m, k) ==
    IF m > Len(mutations) THEN w
    ELSE IF mutations[m].type # "childList" \/ k > Len(mutations[m].addedNodes)
         THEN ForEachMutation(w, cfg, active, tags, mutations, m + 1, 1)
    ELSE ForEachMutation(
            processAddedNode(w, cfg, active, tags, mutations[m].addedNodes[k]),
            cfg, active, tags, mutations, m, k + 1)

\* checkIfActive: isActive and activeElements after it
checkIfActive(currentUrl, cfg) ==
    LET entry == getActiveUrlEntry(currentUrl, cfg.activeUrls, cfg.htmlElements)
    IN  IF entry.type = "object"
        THEN [isActive |-> TRUE, activeElements |-> entry.elements]
        ELSE [isActive |-> FALSE, activeElements |-> <<>>]

----------------------------------------------------------------------------
(* storage.sync *)

KEYS == {"scheme", "htmlElements", "activeUrls", "allowedUncs"}

\* the storage area: the keys it holds and their values (the value of a key
\* it does not hold is kept at the default and never read)
Storage(keys, values) == [keys |-> keys, values |-> values]

\* the area before anything was saved
EmptyStorage == Storage({}, DefaultConfig)

\* the value storage.sync.get(defaults) resolves to for one key
Stored(st, key, defaults) ==
    IF key \in st.keys THEN st.values[key] ELSE defaults[key]

\* storage.sync.get(defaults) with the four keys
StorageGet(st, defaults) ==
    Config(Stored(st, "scheme", defaults), Stored(st, "htmlElements", defaults),
           Stored(st, "activeUrls", defaults), Stored(st, "allowedUncs", defaults))

\* storage.sync.set(config) with the four keys
\* the write that leaves the stored activeUrls as they were
StorageSet_KeepsActiveUrls(st, cfg) ==
    Storage(KEYS, [cfg EXCEPT !.activeUrls = st.values.activeUrls])

StorageSet(st, cfg) == Storage(KEYS, cfg)

\* a call of the browser API by a handler
ApiCall(api, arg, ok) == [api |-> api, arg |-> arg, ok |-> ok]

----------------------------------------------------------------------------
(* src/options/options.js: the options page *)

NEWLINE == 10

\* const DEFAULTS
DEFAULTS == Config(DEFAULT_SCHEME, DEFAULT_ELEMENTS, Array(<<>>), Array(<<>>))

\* value || fallback on strings
OrDefault(value, fallback) == IF Len(value) > 0 THEN value ELSE fallback

\* Array.prototype.includes
includes(arr, el) == \E k \in 1..Len(arr) : arr[k] = el

\* lines.map(line => line.trim())
RECURSIVE TrimAll(_)
TrimAll(lines) ==
    IF lines = <<>> THEN <<>>
    ELSE <<trim(Head(lines))>> \o TrimAll(Tail(lines))

\* text.split('\n').map(line => line.trim()).filter(line => line.length > 0)
parseTextareaToArray(text) ==
    SelectSeq(TrimAll(split(text, NEWLINE)), LAMBDA line : Len(line) > 0)

\* arr.join('\n')
arrayToTextarea(arr) == join(arr, NEWLINE)

\* the status element: its text (the fixed part and the URL put into it),
\* its class and whether it is hidden
Status(text, url, type, hidden) ==
    [text |-> text, url |-> url, type |-> type, hidden |-> hidden]

\* <div id="status" hidden></div>
NoStatus == Status("", <<>>, "", TRUE)

\* showStatus(message, type), up to the timer that hides the element again
showStatus(text, url, type) == Status(text, url, type, FALSE)

\* a checkbox of a row
Checkbox(value, checked) == [value |-> value, checked |-> checked]

\* htmlElements.forEach(el => ...) of createUrlRow: one checkbox for each
\* element, checked when the entry selects it
RECURSIVE Checkboxes(_, _)
Checkboxes(htmlElements, selectedElements) ==
    IF htmlElements = <<>> THEN <<>>
    ELSE <<Checkbox(Head(htmlElements),
                    includes(selectedElements, Head(htmlElements)))>>
            \o Checkboxes(Tail(htmlElements), selectedElements)

\* createUrlRow: the URL input and the checkboxes of a row
createUrlRow(url, selectedElements, htmlElements) ==
    [url |-> url, boxes |-> Checkboxes(htmlElements, selectedElements)]

\* renderUrlList: the rows of the entries of activeUrlsState, for the
\* elements the field holds now (getCurrentHtmlElements)
RECURSIVE renderUrlList(_, _)
renderUrlList(state, htmlElements) ==
    IF state = <<>> THEN <<>>
    ELSE <<createUrlRow(Head(state).url, Head(state).elements.v, htmlElements)>>
            \o renderUrlList(Tail(state), htmlElements)

\* Array.from(checkboxes).map(cb => cb.value) for the checked boxes
RECURSIVE CheckedValues(_)
CheckedValues(boxes) ==
    IF boxes = <<>> THEN <<>>
    ELSE (IF Head(boxes).checked THEN <<Head(boxes).value>> ELSE <<>>)
            \o CheckedValues(Tail(boxes))

\* readUrlListFromDom: for each row its trimmed URL and its checked elements
RECURSIVE readUrlListFromDom(_)
readUrlListFromDom(rows) ==
    IF rows = <<>> THEN <<>>
    ELSE <<ScopeEntry(trim(Head(rows).url), Array(CheckedValues(Head(rows).boxes)))>>
            \o readUrlListFromDom(Tail(rows))

\* entry.elements.filter(el => htmlElements.includes(el)) for every entry
RECURSIVE FilterElements(_, _)
FilterElements(entries, htmlElements) ==
    IF entries = <<>> THEN <<>>
    ELSE <<ScopeEntry(Head(entries).url,
                Array(SelectSeq(Head(entries).elements.v,
                                LAMBDA el : includes(htmlElements, el))))>>
            \o FilterElements(Tail(entries), htmlElements)

\* the second map of handleHtmlElementsChange: an entry left without
\* elements selects the first available one
RECURSIVE SelectFirst(_, _)
SelectFirst(entries, validElements) ==
    IF entries = <<>> THEN <<>>
    ELSE <<IF Len(Head(entries).elements.v) = 0 /\ Len(validElements) > 0
           THEN ScopeEntry(Head(entries).url, Array(<<validElements[1]>>))
           ELSE Head(entries)>>
            \o SelectFirst(Tail(entries), validElements)

\* the page: the form, activeUrlsState and the status element
Options(f, state, stat) == [form |-> f, activeUrlsState |-> state, status |-> stat]

\* the form: the scheme input, the scheme preview, the HTML-elements input,
\* the URL rows and the allowed-UNCs textarea
Form(scheme, preview, htmlElements, rows, allowedUncs) ==
    [scheme |-> scheme, preview |-> preview, htmlElements |-> htmlElements,
     rows |-> rows, allowedUncs |-> allowedUncs]

\* the page as its HTML has it, before loadSettings
OptionsLoaded ==
    /\ form = Form(<<>>, <<>>, DEFAULT_ELEMENTS, <<>>, <<>>)
    /\ activeUrlsState = <<>>
    /\ status = NoStatus

\* updateSchemePreview
updateSchemePreview(f) ==
    [f EXCEPT !.preview = OrDefault(trim(f.scheme), DEFAULTS.scheme)]

\* handleHtmlElementsChange, on the form with the new field value
handleHtmlElementsChange(o) ==
    LET validElements == parseHtmlElements(o.form.htmlElements)
        state == SelectFirst(
                    FilterElements(readUrlListFromDom(o.form.rows), validElements),
                    validElements)
    IN  Options([o.form EXCEPT !.rows = renderUrlList(state, validElements)],
                state, o.status)

\* addUrlRow
addUrlRow(o) ==
    LET htmlElements == parseHtmlElements(o.form.htmlElements)
    IN  IF Len(htmlElements) = 0
        THEN Options(o.form, o.activeUrlsState,
                showStatus("Please configure HTML elements first", <<>>, "error"))
        ELSE LET state == Append(o.activeUrlsState,
                                 ScopeEntry(<<>>, Array(<<htmlElements[1]>>)))
             IN  Options([o.form EXCEPT !.rows = renderUrlList(state, htmlElements)],
                         state, o.status)

\* removeUrlRow(index), index counted from 0 as in the code
removeUrlRow(o, index) ==
    LET state == SubSeq(o.activeUrlsState, 1, index)
                    \o SubSeq(o.activeUrlsState, index + 2, Len(o.activeUrlsState))
    IN  Options([o.form EXCEPT !.rows =
                    renderUrlList(state, parseHtmlElements(o.form.htmlElements))],
                state, o.status)

\* loadSettings: ok tells whether storage.sync.get resolves
loadSettings(st, o, ok) ==
    IF ~ok
    THEN Options(o.form, o.activeUrlsState,
            showStatus("Failed to load settings", <<>>, "error"))
    ELSE LET cfg == StorageGet(st, DEFAULTS)
             scheme == OrDefault(cfg.scheme, DEFAULTS.scheme)
             htmlElements == OrDefault(cfg.htmlElements, DEFAULTS.htmlElements)
             state == IF ToBoolean(cfg.activeUrls) THEN cfg.activeUrls.v ELSE <<>>
             allowed == IF ToBoolean(cfg.allowedUncs) THEN cfg.allowedUncs.v ELSE <<>>
         IN  Options(
                updateSchemePreview(
                    Form(scheme, o.form.preview, htmlElements,
                         renderUrlList(state, parseHtmlElements(htmlElements)),
                         arrayToTextarea(allowed))),
                state, o.status)

\* the result of validateSettings: {valid, error}, the error as the fixed
\* text and the URL put into it
ValidationResult(valid, error, url) == [valid |-> valid, error |-> error, url |-> url]

\* the for loop of validateSettings
RECURSIVE ValidateEntries(_)
ValidateEntries(urlList) ==
    IF urlList = <<>> THEN ValidationResult(TRUE, "", <<>>)
    ELSE IF Len(Head(urlList).url) > 0 /\ Len(Head(urlList).elements.v) = 0
         THEN ValidationResult(FALSE,
                "URL must have at least one element selected", Head(urlList).url)
    ELSE ValidateEntries(Tail(urlList))

\* validateSettings without the test of the elements field
validateSettings_RowsOnly(f) ==
    ValidateEntries(readUrlListFromDom(f.rows))

validateSettings(f) ==
    IF Len(parseHtmlElements(f.htmlElements)) = 0
    THEN ValidationResult(FALSE, "HTML elements cannot be empty", <<>>)
    ELSE ValidateEntries(readUrlListFromDom(f.rows))

\* readUrlListFromDom().filter(entry => entry.url.length > 0).map(...)
\* with the rows of empty URL kept
SavedUrlList_KeepsEmptyUrls(f, htmlElements) ==
    FilterElements(readUrlListFromDom(f.rows), htmlElements)

SavedUrlList(f, htmlElements) ==
    FilterElements(
        SelectSeq(readUrlListFromDom(f.rows), LAMBDA entry : Len(entry.url) > 0),
        htmlElements)

\* const config = {...} of saveSettings
SavedConfig(f) ==
    LET htmlElements == parseHtmlElements(f.htmlElements)
    IN  Config(OrDefault(trim(f.scheme), DEFAULTS.scheme),
               htmlElementsToString(htmlElements),
               Array(SavedUrlList(f, htmlElements)),
               Array(parseTextareaToArray(f.allowedUncs)))

----------------------------------------------------------------------------
(* src/src/background.js: the background script *)

\* the two icon sets and the two titles
ICONS_ACTIVE == "icons/icon-16.png"
ICONS_INACTIVE == "icons/icon-16-gray.png"
TITLE_ACTIVE == "UncClickable - Active (click to open settings)"
TITLE_INACTIVE == "UncClickable - Inactive (click to open settings)"

\* a tab, its id its index in tabs: its URL (undefined when the tab has
\* none), whether a content script listens in it (tabs.sendMessage resolves),
\* whether it is a special page (action.setIcon rejects), and the icon and
\* title the extension has set for it ("" as long as it has set none)
Tab(url, listens, special, icon, title) ==
    [url |-> url, script |-> listens, special |-> special,
     icon |-> icon, title |-> title]

\* the defaults of the storage.sync.get of loadConfig, and its catch value
BACKGROUND_DEFAULTS ==
    [scheme |-> DEFAULT_SCHEME, activeUrls |-> Array(<<>>), allowedUncs |-> Array(<<>>)]

\* loadConfig of background.js: ok tells whether storage.sync.get resolves;
\* the result holds the keys of the defaults passed to it
loadConfig(st, ok) ==
    IF ok
    THEN [scheme |-> Stored(st, "scheme", BACKGROUND_DEFAULTS),
          activeUrls |-> Stored(st, "activeUrls", BACKGROUND_DEFAULTS),
          allowedUncs |-> Stored(st, "allowedUncs", BACKGROUND_DEFAULTS)]
    ELSE BACKGROUND_DEFAULTS

\* isUrlAllowed(url, config.activeUrls) as updateIconForTab calls it: the
\* items of the stored list are objects {url, elements}, on which
\* allowedUrl.toLowerCase is undefined, so that the callback of some() throws
\* a TypeError on the first item
isUrlAllowedOnEntries(currentUrl, allowedUrls) ==
    IF ~ToBoolean(allowedUrls) \/ Len(allowedUrls.v) = 0 THEN Return(TRUE)
    ELSE [kind |-> "throw", value |-> FALSE]

\* the tabs and the calls made so far by a handler
Browser(ts, cs) == [tabs |-> ts, calls |-> cs]

\* updateIconForTab(tabId, url), read telling whether the storage.sync.get
\* of loadConfig resolves: the call itself is put into the calls, resolved
\* or rejected, and after it the calls of the browser API it made
updateIconForTab(b, st, tabId, url, read) ==
    LET cfg == loadConfig(st, read)
        active == isUrlAllowedOnEntries(url, cfg.activeUrls)
        get == ApiCall("storage.sync.get", [tabId |-> tabId], read)
        call(ok) == ApiCall("updateIconForTab", [tabId |-> tabId, read |-> read], ok)
    IN  IF active.kind = "throw"
        THEN Browser(b.tabs, b.calls \o <<call(FALSE), get>>)
        ELSE IF b.tabs[tabId].special
        THEN Browser(b.tabs,
                b.calls \o <<call(TRUE), get,
                             ApiCall("action.setIcon", [tabId |-> tabId], FALSE)>>)
        ELSE Browser(
                [b.tabs EXCEPT ![tabId].icon =
                                    IF active.value THEN ICONS_ACTIVE ELSE ICONS_INACTIVE,
                               ![tabId].title =
                                    IF active.value THEN TITLE_ACTIVE ELSE TITLE_INACTIVE],
                b.calls \o <<call(TRUE), get,
                             ApiCall("action.setIcon", [tabId |-> tabId], TRUE),
                             ApiCall("action.setTitle", [tabId |-> tabId], TRUE)>>)

\* if (tab.url) updateIconForTab(tab.id, tab.url)
updateIconIfUrl(b, st, tabId, read) ==
    IF ToBoolean(b.tabs[tabId].url)
    THEN updateIconForTab(b, st, tabId, b.tabs[tabId].url.v, read)
    ELSE b

\* tabs.forEach(tab => ...) of handleStorageChanged from tab k on; read
\* tells whether the storage reads made for the tabs resolve
RECURSIVE ForEachTab(_, _, _, _)
ForEachTab(b, st, k, read) ==
    IF k > Len(b.tabs) THEN b
    ELSE LET updated == updateIconIfUrl(b, st, k, read)
             sent == Browser(updated.tabs,
                        Append(updated.calls,
                            ApiCall("tabs.sendMessage",
                                [tabId |-> k, type |-> "configUpdated"],
                                b.tabs[k].script)))
         IN  ForEachTab(sent, st, k + 1, read)

\* handleStorageChanged without the test of the area
handleStorageChanged_AnyArea(ts, st, areaName, read) ==
    ForEachTab(Browser(ts, <<>>), st, 1, read)

\* handleStorageChanged(changes, areaName)
handleStorageChanged(ts, st, areaName, read) ==
    IF areaName # "sync" THEN Browser(ts, <<>>)
    ELSE ForEachTab(Browser(ts, <<>>), st, 1, read)

\* handleTabUpdated(tabId, changeInfo, tab): change is "url", "complete" or
\* another change
handleTabUpdated(ts, st, tabId, change, read) ==
    IF change \in {"url", "complete"}
    THEN updateIconIfUrl(Browser(ts, <<>>), st, tabId, read)
    ELSE Browser(ts, <<>>)

\* handleTabActivated(activeInfo): got tells whether tabs.get resolves
handleTabActivated(ts, st, tabId, got, read) ==
    IF got
    THEN updateIconIfUrl(Browser(ts, <<ApiCall("tabs.get", [tabId |-> tabId], TRUE)>>),
                         st, tabId, read)
    ELSE Browser(ts, <<ApiCall("tabs.get", [tabId |-> tabId], FALSE)>>)

----------------------------------------------------------------------------
(* The extension before any of its pages or workers has run *)

ExtensionLoaded ==
    /\ storage = EmptyStorage
    /\ tabs = <<>>
    /\ calls = <<>>
    /\ OptionsLoaded

----------------------------------------------------------------------------
(* Inputs *)

\* all sequences over S of length 0..n
RECURSIVE SeqsUpTo(_, _)
SeqsUpTo(S, n) ==
    IF n = 0 THEN {<<>>}
    ELSE LET shorter == SeqsUpTo(S, n - 1)
         IN  shorter \cup {Append(s, c) : s \in {t \in shorter : Len(t) = n - 1}, c \in S}

\* n copies of c
Repeat(c, n) == [i \in 1..n |-> c]

\* s when it has n code units or more, and otherwise s with 'a' inserted
\* after its first two code units up to length n
PadTo(s, n) ==
    IF Len(s) >= n THEN s
    ELSE LET k == IF Len(s) < 2 THEN Len(s) ELSE 2
         IN  SubSeq(s, 1, k) \o Repeat(LOWER_A, n - Len(s))
                 \o SubSeq(s, k + 1, Len(s))

\* the separators, a control character of each end of 0..31, the newlines,
\* the space just above them, the forbidden punctuation and a letter
PathChars == {0, 10, 13, 31, 32, 34, 42, SLASH, COLON, 60, 62, 63, BACKSLASH, LOWER_A, 124}

ShortTexts == SeqsUpTo(PathChars, MaxLen)

\* no padding, and the lengths around MAX_PATH
PadLengths == {0} \cup (MAX_PATH - Margin)..(MAX_PATH + Margin)

----------------------------------------------------------------------------
(* The validator, called on every input *)

InitValid ==
    /\ pc = "call"
    /\ fn = "isValidUncPath"
    /\ \/ \E s \in ShortTexts, n \in PadLengths : args = [text |-> Str(PadTo(s, n))]
       \/ args \in {[text |-> Null], [text |-> Undefined]}
    /\ ret = NoRet
    /\ dom = EmptyDocument
    /\ ScriptLoaded
    /\ CoreLoaded
    /\ ExtensionLoaded

CallIsValidUncPath ==
    /\ pc = "call"
    /\ fn = "isValidUncPath"
    /\ ret' = isValidUncPath(args.text)
    /\ pc' = "return"
    /\ UNCHANGED <<fn, args, page, core, extension>>

NextValid == CallIsValidUncPath

SpecValid == InitValid /\ [][NextValid]_vars

\* the validator has returned from a call on a string
ValidReturned ==
    pc = "return" /\ fn = "isValidUncPath" /\ args.text.type = "string"

\* s begins with two backslashes
TwoLeadingBackslashes(s) ==
    Len(s) >= 2 /\ s[1] = BACKSLASH /\ s[2] = BACKSLASH

\* c is none of < > : " | ? * and no control character
PermittedChar(c) == c \notin {60, 62, 58, 34, 124, 63, 42} /\ c > 31

\* two backslashes followed only by permitted characters
WellFormed(s) ==
    TwoLeadingBackslashes(s) /\ \A i \in 3..Len(s) : PermittedChar(s[i])

\* C1: isValidUncPath returns false for every string shorter than 3 or
\* longer than 260, and true for a well-formed string of length exactly 3
\* and of length exactly 260.
C1_LengthBounds ==
    ValidReturned =>
        LET s == args.text.v
        IN  /\ (Len(s) < 3 \/ Len(s) > 260) => ret = Return(FALSE)
            /\ (WellFormed(s) /\ Len(s) \in {3, 260}) => ret = Return(TRUE)

\* a well-formed string of 260 characters has been accepted
C1_Witness ==
    /\ ValidReturned
    /\ Len(args.text.v) = 260
    /\ WellFormed(args.text.v)
    /\ ret = Return(TRUE)

\* C2: for every string of length 3..260 that begins with two backslashes,
\* isValidUncPath returns true if and only if no character after the two
\* leading backslashes is one of < > : " | ? * or a control character 0..31.
C2_ForbiddenChars ==
    (ValidReturned /\ Len(args.text.v) \in 3..260
        /\ TwoLeadingBackslashes(args.text.v))
    => (ret = Return(TRUE)
            <=> \A i \in 3..Len(args.text.v) : PermittedChar(args.text.v[i]))

\* a string whose only fault is the control character \x1F at its end has
\* been rejected
C2_Witness ==
    /\ ValidReturned
    /\ Len(args.text.v) = 260
    /\ TwoLeadingBackslashes(args.text.v)
    /\ args.text.v[260] = 31
    /\ \A i \in 3..259 : PermittedChar(args.text.v[i])
    /\ ret = Return(FALSE)

\* C3: isValidUncPath returns false for every string whose first two
\* characters are not both backslashes, whatever the rest is.
C3_LeadingBackslashes ==
    (ValidReturned /\ ~TwoLeadingBackslashes(args.text.v))
    => ret = Return(FALSE)

\* a string of permitted characters with one leading backslash, of a legal
\* length, has been rejected
C3_Witness ==
    /\ ValidReturned
    /\ Len(args.text.v) = 3
    /\ args.text.v[1] = BACKSLASH
    /\ args.text.v[2] = LOWER_A
    /\ PermittedChar(args.text.v[3])
    /\ ret = Return(FALSE)

\* C4: isValidUncPath called with null, undefined or the empty string
\* returns false, and no input makes it throw instead of returning a boolean.
C4_NeverThrows ==
    (pc = "return" /\ fn = "isValidUncPath")
    => /\ ret.kind = "return"
       /\ ret.value \in BOOLEAN
       /\ (IsNullish(args.text) \/ args.text = Str(<<>>)) => ret.value = FALSE

\* the call on null has returned false
C4_Witness ==
    /\ pc = "return"
    /\ fn = "isValidUncPath"
    /\ args.text = Null
    /\ ret = Return(FALSE)

----------------------------------------------------------------------------
(* The matchers, called on every input *)

\* the lists of at most n items with any item of main at one place and one
\* item of fillers at all the others
ListsOf(main, fillers, n) ==
    {<<>>} \cup
    UNION { UNION { {[i \in 1..len |-> IF i = k THEN p ELSE q] :
                        p \in main, q \in fillers} : k \in 1..len } : len \in 1..n }

\* a list argument: an array, null or undefined
ListArgs(lists) == {Array(l) : l \in lists} \cup {Null, Undefined}

\* the path separator and a letter in both cases
UncChars == {BACKSLASH, LOWER_A, UPPER_A}
UncPaths == SeqsUpTo(UncChars, MaxPathLen)
UncPrefixes == SeqsUpTo(UncChars, MaxPrefixLen)
UncFillers == {<<LOWER_A>>, <<BACKSLASH, BACKSLASH>>}
UncPrefixLists == ListsOf(UncPrefixes, UncFillers, MaxList)

\* the URL separator and a letter in both cases
UrlChars == {SLASH, LOWER_A, UPPER_A}
Urls == SeqsUpTo(UrlChars, MaxPathLen)
UrlPrefixes == SeqsUpTo(UrlChars, MaxPrefixLen)
UrlFillers == {<<LOWER_A>>, <<SLASH, SLASH>>}
UrlPrefixLists == ListsOf(UrlPrefixes, UrlFillers, MaxList)

\* the tags 'a' and 'p'
TagA == <<LOWER_A>>
TagP == <<LOWER_P>>

\* an entry's elements: never configured, configured empty, one tag
ElementChoices == {Undefined, Array(<<>>), Array(<<TagA>>)}
ScopeEntries == {ScopeEntry(u, e) : u \in UrlPrefixes, e \in ElementChoices}
ScopeFillers ==
    {ScopeEntry(<<LOWER_A>>, Array(<<TagP>>)),
     ScopeEntry(<<SLASH, SLASH>>, Array(<<TagP, TagA>>))}
ScopeEntryLists == ListsOf(ScopeEntries, ScopeFillers, MaxList)

\* the default element strings: tags in both cases, separators, spaces
DefaultChars == {LOWER_A, UPPER_A, LOWER_P, SEMICOLON, SPACE}
DefaultStrings == SeqsUpTo(DefaultChars, MaxDefaultLen)
\* 'a;p'
DefaultAP == <<LOWER_A, SEMICOLON, LOWER_P>>

InitMatch ==
    /\ pc = "call"
    /\ ret = NoRet
    /\ dom = EmptyDocument
    /\ ScriptLoaded
    /\ CoreLoaded
    /\ ExtensionLoaded
    /\ \/ /\ fn = "isUncAllowed"
          /\ \E p \in UncPaths, l \in ListArgs(UncPrefixLists) :
                args = [uncPath |-> p, allowedPrefixes |-> l]
       \/ /\ fn = "isUrlAllowed"
          /\ \E u \in Urls, l \in ListArgs(UrlPrefixLists) :
                args = [currentUrl |-> u, allowedUrls |-> l]
       \/ /\ fn = "getActiveUrlEntry"
          /\ \E u \in Urls, l \in ListArgs(ScopeEntryLists) :
                args = [currentUrl |-> u, activeUrls |-> l,
                        defaultElements |-> DefaultAP]
       \/ /\ fn = "getActiveUrlEntry"
          /\ \E l \in ListArgs({<<>>}), d \in DefaultStrings :
                args = [currentUrl |-> <<LOWER_A, SLASH>>, activeUrls |-> l,
                        defaultElements |-> d]

CallIsUncAllowed ==
    /\ pc = "call"
    /\ fn = "isUncAllowed"
    /\ ret' = Return(isUncAllowed(args.uncPath, args.allowedPrefixes))
    /\ pc' = "return"
    /\ UNCHANGED <<fn, args, page, core, extension>>

CallIsUrlAllowed ==
    /\ pc = "call"
    /\ fn = "isUrlAllowed"
    /\ ret' = Return(isUrlAllowed(args.currentUrl, args.allowedUrls))
    /\ pc' = "return"
    /\ UNCHANGED <<fn, args, page, core, extension>>

CallGetActiveUrlEntry ==
    /\ pc = "call"
    /\ fn = "getActiveUrlEntry"
    /\ ret' = Return(getActiveUrlEntry(args.currentUrl, args.activeUrls,
                                       args.defaultElements))
    /\ pc' = "return"
    /\ UNCHANGED <<fn, args, page, core, extension>>

NextMatch == CallIsUncAllowed \/ CallIsUrlAllowed \/ CallGetActiveUrlEntry

SpecMatch == InitMatch /\ [][NextMatch]_vars

\* c with a cased letter folded to its capital
Fold(c) == IF c \in 97..122 THEN c - 32 ELSE c

\* p is a prefix of s when letter case is ignored
StartsWithIgnoringCase(s, p) ==
    Len(s) >= Len(p) /\ \A i \in 1..Len(p) : Fold(s[i]) = Fold(p[i])

\* s with the letter at i changed to its other case
FlipCaseAt(s, i) ==
    [s EXCEPT ![i] = IF @ \in 65..90 THEN @ + 32
                     ELSE IF @ \in 97..122 THEN @ - 32 ELSE @]

EndsWithBackslash(p) == Len(p) > 0 /\ p[Len(p)] = 92

UncReturned == pc = "return" /\ fn = "isUncAllowed"
UrlReturned == pc = "return" /\ fn = "isUrlAllowed"
EntryReturned == pc = "return" /\ fn = "getActiveUrlEntry"

\* the list argument is empty, null or undefined
NoList(l) == l.type \in {"null", "undefined"} \/ (l.type = "array" /\ Len(l.v) = 0)

\* C6: isUncAllowed returns true for every UNC path when the prefix list is
\* empty, null or undefined.
C6_NoRestriction ==
    (UncReturned /\ NoList(args.allowedPrefixes)) => ret = Return(TRUE)

\* the path \\a has been allowed under an empty array
C6_Witness ==
    /\ UncReturned
    /\ args.allowedPrefixes = Array(<<>>)
    /\ args.uncPath = <<92, 92, 97>>
    /\ ret = Return(TRUE)

\* C7: with a list whose only prefix ends with a backslash, isUncAllowed
\* returns true exactly for the paths that start, case ignored, with the
\* whole prefix including its backslash.
C7_TrailingBackslash ==
    (UncReturned /\ args.allowedPrefixes.type = "array"
        /\ Len(args.allowedPrefixes.v) = 1
        /\ EndsWithBackslash(args.allowedPrefixes.v[1]))
    => ret = Return(StartsWithIgnoringCase(args.uncPath, args.allowedPrefixes.v[1]))

\* under the prefix A\ the sibling aa\, whose name extends the last
\* component, has been rejected
C7_Witness ==
    /\ UncReturned
    /\ args.allowedPrefixes = Array(<< <<65, 92>> >>)
    /\ args.uncPath = <<97, 97, 92>>
    /\ ret = Return(FALSE)

\* C8: a prefix that does not end with a backslash matches by raw string
\* prefix, case ignored: every path that starts with it is allowed, a list of
\* that prefix alone allows no other path, and a path equal to a configured
\* prefix is always allowed.
C8_RawPrefix ==
    (UncReturned /\ args.allowedPrefixes.type = "array"
        /\ Len(args.allowedPrefixes.v) > 0)
    => LET list == args.allowedPrefixes.v
       IN  /\ \A k \in 1..Len(list) :
                (~EndsWithBackslash(list[k])
                    /\ StartsWithIgnoringCase(args.uncPath, list[k]))
                => ret = Return(TRUE)
           /\ (Len(list) = 1 /\ ~EndsWithBackslash(list[1]))
                => ret = Return(StartsWithIgnoringCase(args.uncPath, list[1]))
           /\ (\E k \in 1..Len(list) : args.uncPath = list[k])
                => ret = Return(TRUE)

\* under the prefix \a the path \aa, whose name extends the last
\* component, has been allowed
C8_Witness ==
    /\ UncReturned
    /\ args.allowedPrefixes = Array(<< <<92, 97>> >>)
    /\ args.uncPath = <<92, 97, 97>>
    /\ ret = Return(TRUE)

\* C9: changing the letter case of the candidate UNC path or of a configured
\* prefix never changes the result of isUncAllowed, and changing the letter
\* case of the page URL or of a configured URL prefix never changes whether
\* isUrlAllowed and getActiveUrlEntry report the page as in scope.
C9_CaseInsensitive ==
    /\ UncReturned =>
        /\ \A i \in 1..Len(args.uncPath) :
              isUncAllowed(FlipCaseAt(args.uncPath, i), args.allowedPrefixes)
                  = ret.value
        /\ \A k \in 1..Len(args.allowedPrefixes.v) :
              \A i \in 1..Len(args.allowedPrefixes.v[k]) :
                isUncAllowed(args.uncPath,
                    [args.allowedPrefixes EXCEPT !.v[k] = FlipCaseAt(@, i)])
                  = ret.value
    /\ UrlReturned =>
        /\ \A i \in 1..Len(args.currentUrl) :
              isUrlAllowed(FlipCaseAt(args.currentUrl, i), args.allowedUrls)
                  = ret.value
        /\ \A k \in 1..Len(args.allowedUrls.v) :
              \A i \in 1..Len(args.allowedUrls.v[k]) :
                isUrlAllowed(args.currentUrl,
                    [args.allowedUrls EXCEPT !.v[k] = FlipCaseAt(@, i)])
                  = ret.value
    /\ EntryReturned =>
        /\ \A i \in 1..Len(args.currentUrl) :
              getActiveUrlEntry(FlipCaseAt(args.currentUrl, i), args.activeUrls,
                                args.defaultElements).type = ret.value.type
        /\ \A k \in 1..Len(args.activeUrls.v) :
              \A i \in 1..Len(args.activeUrls.v[k].url) :
                getActiveUrlEntry(args.currentUrl,
                    [args.activeUrls EXCEPT !.v[k].url = FlipCaseAt(@, i)],
                    args.defaultElements).type = ret.value.type

\* the path A\a has been allowed under the prefix a\, which differs from
\* the start of the path in letter case only
C9_Witness ==
    /\ UncReturned
    /\ args.allowedPrefixes = Array(<< <<97, 92>> >>)
    /\ args.uncPath = <<65, 92, 97>>
    /\ ret = Return(TRUE)

\* the lists of at most two of the tags 'a' and 'p'
TagLists == SeqsUpTo({TagA, TagP}, 2)

\* tag is non-empty, trimmed, lowercase and free of semicolons
CleanTag(tag) ==
    /\ Len(tag) > 0
    /\ tag[1] # 32 /\ tag[Len(tag)] # 32
    /\ \A i \in 1..Len(tag) : tag[i] # 59 /\ tag[i] \notin 65..90

\* C10: when the scope-entry list is empty, null or undefined,
\* getActiveUrlEntry returns a non-null entry with url '' and elements equal
\* to the default element string parsed into its tag list in order: a list of
\* clean tags, which is the list the string was joined from if there is one.
C10_EmptyScopeList ==
    (EntryReturned /\ NoList(args.activeUrls))
    => /\ ret.kind = "return"
       /\ ret.value.type = "object"
       /\ ret.value.url = <<>>
       /\ \A i \in 1..Len(ret.value.elements) : CleanTag(ret.value.elements[i])
       /\ \A tags \in TagLists :
            args.defaultElements = htmlElementsToString(tags)
                => ret.value.elements = tags

\* the default string 'a;p' has been parsed into the tags 'a' and 'p' for a
\* null list
C10_Witness ==
    /\ EntryReturned
    /\ args.activeUrls = Null
    /\ args.defaultElements = <<97, 59, 112>>
    /\ ret.value = MatchResult(<<>>, << <<97>>, <<112>> >>)

\* the call was given a non-empty array of scope entries
EntryListGiven ==
    EntryReturned /\ args.activeUrls.type = "array" /\ Len(args.activeUrls.v) > 0

\* entry k of the list has a url that is a prefix of the page URL, case ignored
EntryMatches(k) ==
    StartsWithIgnoringCase(args.currentUrl, args.activeUrls.v[k].url)

\* entry k matches and no entry before it does
FirstMatch(k) == EntryMatches(k) /\ \A j \in 1..(k - 1) : ~EntryMatches(j)

\* C11: for a non-empty scope-entry list, getActiveUrlEntry returns null if
\* and only if no entry's url is a case-insensitive string prefix of the page
\* URL; an entry whose url is the empty string matches every page.
C11_NullIffNoPrefix ==
    EntryListGiven
    => /\ ret.value.type = "null"
            <=> ~\E k \in 1..Len(args.activeUrls.v) : EntryMatches(k)
       /\ (\E k \in 1..Len(args.activeUrls.v) : args.activeUrls.v[k].url = <<>>)
            => ret.value.type = "object"

\* the page URL a/a is in scope of the single entry with url A, and was
\* reported so
C11_Witness ==
    /\ EntryListGiven
    /\ Len(args.activeUrls.v) = 1
    /\ args.activeUrls.v[1].url = <<65>>
    /\ args.currentUrl = <<97, 47, 97>>
    /\ ret.value.type = "object"

\* C12: when several scope entries match the page URL, getActiveUrlEntry
\* returns the url and the elements of the entry that comes first in list
\* order, even when a later entry has a longer prefix.
C12_FirstMatchWins ==
    EntryListGiven
    => \A k \in 1..Len(args.activeUrls.v) :
          FirstMatch(k)
          => /\ ret.value.type = "object"
             /\ ret.value.url = args.activeUrls.v[k].url
             /\ args.activeUrls.v[k].elements.type = "array"
                    => ret.value.elements = args.activeUrls.v[k].elements.v

\* the entry with url a came before the entry with the longer url aa, both
\* match the page aa/, and the first one was returned
C12_Witness ==
    /\ EntryListGiven
    /\ args.currentUrl = <<97, 97, 47>>
    /\ args.activeUrls.v =
            <<ScopeEntry(<<97>>, Array(<< <<112>> >>)),
              ScopeEntry(<<97, 97>>, Array(<< <<97>> >>))>>
    /\ ret.value = MatchResult(<<97>>, << <<112>> >>)

\* C13: for a matching scope entry, getActiveUrlEntry returns the entry's own
\* elements list when it is defined, an empty list included, and the parsed
\* default element tags only when the entry's elements field is undefined.
C13_OwnElements ==
    EntryListGiven
    => \A k \in 1..Len(args.activeUrls.v) :
          FirstMatch(k)
          => LET own == args.activeUrls.v[k].elements
             IN  /\ own.type = "array" => ret.value.elements = own.v
                 /\ (own.type = "undefined" /\ args.defaultElements = <<97, 59, 112>>)
                        => ret.value.elements = << <<97>>, <<112>> >>
                 /\ (own.type = "undefined") =>
                        \A i \in 1..Len(ret.value.elements) :
                            CleanTag(ret.value.elements[i])

\* the only entry matches the page and has an empty elements list, and the
\* result has no elements
C13_Witness ==
    /\ EntryListGiven
    /\ args.defaultElements = <<97, 59, 112>>
    /\ args.activeUrls.v = <<ScopeEntry(<<97>>, Array(<<>>))>>
    /\ args.currentUrl = <<65, 47>>
    /\ ret.value = MatchResult(<<97>>, <<>>)

----------------------------------------------------------------------------
(* The converter, called on every input *)

\* the separators and a letter
ConvChars == {BACKSLASH, SLASH, LOWER_A}

ConvPaths == SeqsUpTo(ConvChars, MaxConvLen)

\* 'uncopener', 'a' and a scheme that holds a backslash
Schemes ==
    { <<117, 110, 99, 111, 112, 101, 110, 101, 114>>,
      <<LOWER_A>>,
      <<LOWER_A, BACKSLASH>> }

InitConvert ==
    /\ pc = "call"
    /\ fn = "convertUncToUrl"
    /\ \E p \in ConvPaths, s \in Schemes : args = [uncPath |-> p, scheme |-> s]
    /\ ret = NoRet
    /\ dom = EmptyDocument
    /\ ScriptLoaded
    /\ CoreLoaded
    /\ ExtensionLoaded

CallConvertUncToUrl ==
    /\ pc = "call"
    /\ fn = "convertUncToUrl"
    /\ ret' = Return(convertUncToUrl(args.uncPath, args.scheme))
    /\ pc' = "return"
    /\ UNCHANGED <<fn, args, page, core, extension>>

NextConvert == CallConvertUncToUrl

SpecConvert == InitConvert /\ [][NextConvert]_vars

ConvertReturned == pc = "return" /\ fn = "convertUncToUrl"

\* the number of characters of p after its first two
RestLen(p) == IF Len(p) > 2 THEN Len(p) - 2 ELSE 0

\* url is s, then "://", then p without its first two characters and with
\* every backslash of the remainder replaced by a forward slash
IsConversionOf(url, p, s) ==
    /\ Len(url) = Len(s) + 3 + RestLen(p)
    /\ \A i \in 1..Len(s) : url[i] = s[i]
    /\ url[Len(s) + 1] = 58 /\ url[Len(s) + 2] = 47 /\ url[Len(s) + 3] = 47
    /\ \A i \in 1..RestLen(p) :
            url[Len(s) + 3 + i] = IF p[i + 2] = 92 THEN 47 ELSE p[i + 2]

\* C5 as stated, for the paths the validator accepts: convertUncToUrl(p, s)
\* is s, "://" and p without its first two characters, backslashes replaced
\* by forward slashes; the result ends with '/' exactly when p (longer than
\* two characters) ends with a backslash.
C5_AsStated ==
    (ConvertReturned /\ ret.kind = "return" /\ WellFormed(args.uncPath))
    => /\ IsConversionOf(ret.value, args.uncPath, args.scheme)
       /\ Len(args.uncPath) > 2
            => (ret.value[Len(ret.value)] = 47
                    <=> args.uncPath[Len(args.uncPath)] = 92)

\* C5 (amended): convertUncToUrl(p, s) is s, "://" and p without its first
\* two characters, backslashes replaced by forward slashes; the result ends
\* with '/' exactly when p (longer than two characters) ends with a backslash
\* or with a forward slash.
C5_Conversion ==
    ConvertReturned
    => /\ ret.kind = "return"
       /\ IsConversionOf(ret.value, args.uncPath, args.scheme)
       /\ Len(args.uncPath) > 2
            => (ret.value[Len(ret.value)] = 47
                    <=> args.uncPath[Len(args.uncPath)] \in {92, 47})

\* a path with two backslashes after the leading pair, the last one at its
\* end, has been converted to a URL that ends with '/'
C5_Witness ==
    /\ ConvertReturned
    /\ Len(args.uncPath) = 4
    /\ \A i \in 1..4 : args.uncPath[i] = 92
    /\ Len(args.scheme) = 9
    /\ ret.value[Len(ret.value)] = 47
    /\ ret.value[Len(ret.value) - 1] = 47

----------------------------------------------------------------------------
(* validateCodeElement on one element of a document *)

\* a valid UNC path and a text that is none, as the tests use them
ValidText == <<BACKSLASH, BACKSLASH, LOWER_A>>
InvalidText == <<LOWER_A, LOWER_A, LOWER_A>>

\* what getAttribute('contenteditable') returns: null when absent
EditableAttrs == {Null, Str(ATTR_TRUE), Str(<<>>), Str(ATTR_FALSE)}

\* the ancestors between document.body and the element, outermost first
AncestorKinds ==
    {[tagName |-> TAG_DIV, contenteditable |-> a, isContentEditable |-> FALSE] :
        a \in EditableAttrs}
    \cup {[tagName |-> TAG_DIV, contenteditable |-> Null, isContentEditable |-> TRUE],
          [tagName |-> TAG_TEXTAREA, contenteditable |-> Null, isContentEditable |-> FALSE]}
AncestorChains == SeqsUpTo(AncestorKinds, MaxDepth)

\* the child nodes of the element
ChildLists ==
    {<<>>, <<TextTree(ValidText)>>, <<TextTree(InvalidText)>>, <<TextTree(<<>>)>>,
     <<CommentTree(ValidText)>>,
     <<ElementTree(TAG_A, Null, FALSE, <<TextTree(ValidText)>>)>>,
     <<TextTree(ValidText), TextTree(ValidText)>>,
     <<TextTree(ValidText), CommentTree(<<>>)>>}

ElementTags == {TAG_P, TAG_INPUT, TAG_TEXTAREA}

\* the subtree of the ancestors from the k-th on, around the element t
RECURSIVE Wrap(_, _, _)
Wrap(chain, k, t) ==
    IF k > Len(chain) THEN t
    ELSE ElementTree(chain[k].tagName, chain[k].contenteditable,
                     chain[k].isContentEditable, <<Wrap(chain, k + 1, t)>>)

\* the reads with the children of the element taken out on the way
DocumentAfterReads_Emptied(d, element) == ClearChildren(d, element)

\* the document after isElementEditable or validateCodeElement: what they use
\* of it (isContentEditable, tagName, getAttribute, parentElement, childNodes,
\* nodeType, textContent) is read, and nothing is assigned or called on it
DocumentAfterReads(d, element) == d

InitElement ==
    /\ pc = "call"
    /\ fn \in {"validateCodeElement", "isElementEditable"}
    /\ ret = NoRet
    /\ ScriptLoaded
    /\ CoreLoaded
    /\ ExtensionLoaded
    /\ \E chain \in AncestorChains, tag \in ElementTags, a \in EditableAttrs,
          e \in BOOLEAN, kids \in ChildLists :
            /\ dom = appendChild(EmptyDocument, BodyId,
                                 Wrap(chain, 1, ElementTree(tag, a, e, kids)))
            /\ args = [element |-> BodyId + Len(chain) + 1]

CallValidateCodeElement ==
    /\ pc = "call"
    /\ fn = "validateCodeElement"
    /\ ret' = Return(validateCodeElement(dom, args.element))
    /\ dom' = DocumentAfterReads(dom, args.element)
    /\ pc' = "return"
    /\ UNCHANGED <<fn, args, script, core, extension>>

CallIsElementEditable ==
    /\ pc = "call"
    /\ fn = "isElementEditable"
    /\ ret' = Return(isElementEditable(dom, args.element))
    /\ dom' = DocumentAfterReads(dom, args.element)
    /\ pc' = "return"
    /\ UNCHANGED <<fn, args, script, core, extension>>

NextElement == CallValidateCodeElement \/ CallIsElementEditable

SpecElement == InitElement /\ [][NextElement]_vars

ElementReturned == pc = "return" /\ fn = "validateCodeElement"

\* the element and its ancestors below document.body
RECURSIVE SelfAndAncestors(_, _)
SelfAndAncestors(d, n) ==
    IF n = 0 \/ n = BodyId THEN {}
    ELSE {n} \cup SelfAndAncestors(d, d[n].parent)

\* editable as the claim words it
Editable(d, n) ==
    \/ d[n].isContentEditable
    \/ d[n].tagName \in {TAG_INPUT, TAG_TEXTAREA}
    \/ d[n].contenteditable.type = "string"
         /\ d[n].contenteditable.v \in {ATTR_TRUE, <<>>}

\* C14: validateCodeElement returns {valid: false} whenever the element or an
\* ancestor below document.body is editable (isContentEditable, an input or
\* textarea tag, contenteditable "true" or ""); contenteditable="false" alone,
\* with nothing editable on the way up, does not make the element editable.
C14_EditableInvalid ==
    ElementReturned =>
        LET chain == SelfAndAncestors(dom, args.element)
        IN  /\ (\E n \in chain : Editable(dom, n))
                => ret = Return(Validation(FALSE, Undefined))
            /\ (\A n \in chain : ~Editable(dom, n))
                => ~isElementEditable(dom, args.element)
            /\ (/\ \A n \in chain : ~Editable(dom, n)
                /\ dom[args.element].contenteditable = Str(ATTR_FALSE)
                /\ Len(dom[args.element].childNodes) = 1
                /\ dom[dom[args.element].childNodes[1]].nodeType = TEXT_NODE
                /\ dom[dom[args.element].childNodes[1]].data = ValidText)
                => ret = Return(Validation(TRUE, Str(ValidText)))

\* an element that would be valid but for its editable grandparent
C14_Witness ==
    /\ ElementReturned
    /\ ~Editable(dom, args.element)
    /\ dom[args.element].parent # BodyId
    /\ ~Editable(dom, dom[args.element].parent)
    /\ \E n \in SelfAndAncestors(dom, args.element) : Editable(dom, n)
    /\ Len(dom[args.element].childNodes) = 1
    /\ dom[dom[args.element].childNodes[1]].nodeType = TEXT_NODE
    /\ dom[dom[args.element].childNodes[1]].data = ValidText
    /\ ret = Return(Validation(FALSE, Undefined))

\* the element has exactly one child, a text node that passes isValidUncPath
SingleValidTextChild(d, n) ==
    /\ Len(d[n].childNodes) = 1
    /\ d[d[n].childNodes[1]].nodeType = TEXT_NODE
    /\ isValidUncPath(Str(d[d[n].childNodes[1]].data)) = Return(TRUE)

\* C15: validateCodeElement returns valid: true only if the element has exactly
\* one child, a text node whose text passes isValidUncPath, and then the
\* returned text is that child's text; in every other case the result is
\* {valid: false} without a text field.
C15_SingleTextChild ==
    ElementReturned =>
        /\ ret.kind = "return"
        /\ ret.value.valid
            => /\ SingleValidTextChild(dom, args.element)
               /\ ret.value.text = Str(dom[dom[args.element].childNodes[1]].data)
        /\ ~SingleValidTextChild(dom, args.element)
            => ret.value = Validation(FALSE, Undefined)
        /\ ~ret.value.valid => ret.value.text = Undefined

\* a valid text followed by a second child is turned down
C15_Witness ==
    /\ ElementReturned
    /\ ~isElementEditable(dom, args.element)
    /\ Len(dom[args.element].childNodes) = 2
    /\ dom[dom[args.element].childNodes[1]].nodeType = TEXT_NODE
    /\ dom[dom[args.element].childNodes[1]].data = ValidText
    /\ ret = Return(Validation(FALSE, Undefined))

----------------------------------------------------------------------------
(* The content script in a page *)

\* window.location.href, and URL prefixes that match it and do not
PageUrl == <<LOWER_A, LOWER_P>>
MatchingPrefix == <<UPPER_A>>
OtherPrefix == <<LOWER_P>>

\* a valid UNC path in capitals that ends with a backslash; as an allowlist
\* it lets itself through and turns ValidText down
OtherText == <<BACKSLASH, BACKSLASH, UPPER_A, BACKSLASH>>

\* the tags of the lists: 'code', 'a' and 'p'
CodeTag == DEFAULT_ELEMENTS
CodeAndA == DEFAULT_ELEMENTS \o <<SEMICOLON, LOWER_A>>

\* what api.storage.sync.get can resolve to: the defaults; 'code' and 'a'
\* with an allowlist; a scope for another page; a scope with no tags; a
\* scope for this page with the tag 'p' after one for another page
StoredConfigs ==
    {DefaultConfig,
     Config(<<LOWER_A>>, CodeAndA, Array(<<>>), Array(<<OtherText>>)),
     Config(DEFAULT_SCHEME, CodeTag,
            Array(<<ScopeEntry(OtherPrefix, Array(<<CodeTag>>))>>), Array(<<>>)),
     Config(DEFAULT_SCHEME, CodeTag,
            Array(<<ScopeEntry(MatchingPrefix, Array(<<>>))>>), Array(<<>>)),
     Config(<<LOWER_A>>, CodeTag,
            Array(<<ScopeEntry(OtherPrefix, Array(<<CodeTag>>)),
                    ScopeEntry(MatchingPrefix, Array(<<TagP>>))>>), Array(<<>>))}

\* what the page holds and adds
CodeTree(text) == ElementTree(TAG_CODE, Null, FALSE, <<TextTree(text)>>)
PageTrees ==
    {CodeTree(ValidText), CodeTree(OtherText), CodeTree(InvalidText),
     ElementTree(TAG_P, Null, FALSE, <<TextTree(ValidText)>>),
     ElementTree(TAG_DIV, Null, FALSE, <<CodeTree(ValidText)>>),
     TextTree(ValidText)}

\* the number of nodes of a subtree
RECURSIVE TreeSize(_)
TreeSize(t) ==
    LET RECURSIVE Kids(_)
        Kids(k) == IF k > Len(t.kids) THEN 0 ELSE TreeSize(t.kids[k]) + Kids(k + 1)
    IN  1 + Kids(1)

\* document.body with the subtrees appended in turn
RECURSIVE BodyWith(_, _)
BodyWith(trees, k) ==
    IF k = 0 THEN EmptyDocument
    ELSE appendChild(BodyWith(trees, k - 1), BodyId, trees[k])

InitContent ==
    /\ pc = "start"
    /\ fn = "content"
    /\ args = [href |-> PageUrl]
    /\ ret = NoRet
    /\ ScriptLoaded
    /\ CoreLoaded
    /\ ExtensionLoaded
    /\ \E trees \in SeqsUpTo(PageTrees, MaxElems) : dom = BodyWith(trees, Len(trees))

\* loadConfig that falls back to the defaults when the storage call rejects
LoadConfig_DefaultsOnFailure(cfg, ok) ==
    IF ok THEN StoredConfigs ELSE {DefaultConfig}

\* loadConfig: config after it; a rejected storage call is caught and leaves
\* it as it was
LoadConfig(cfg, ok) == IF ok THEN StoredConfigs ELSE {cfg}

\* init, from loadConfig on
init ==
    /\ pc = "start"
    /\ \E ok \in BOOLEAN : \E loaded \in LoadConfig(config, ok) :
        LET check == checkIfActive(args.href, loaded)
            scan == processCodeElements(World(dom, records, FALSE), loaded,
                        check.isActive, check.activeElements, 0)
        IN  /\ calls' = <<ApiCall("storage.sync.get", DefaultConfig, ok)>>
            /\ config' = loaded
            /\ isActive' = check.isActive
            /\ activeElements' = check.activeElements
            /\ IF check.isActive
               THEN /\ dom' = scan.world.dom
                    /\ ret' = Return(scan.result)
                    /\ observing' = TRUE
               ELSE UNCHANGED <<dom, ret, observing>>
    /\ pc' = "listening"
    /\ UNCHANGED <<fn, args, records, core>>
    /\ UNCHANGED <<storage, tabs, form, activeUrlsState, status>>

\* handleMessage({type: 'configUpdated'}) with its continuation
handleMessage ==
    /\ pc = "listening"
    /\ records = <<>>
    /\ \E ok \in BOOLEAN : \E loaded \in LoadConfig(config, ok) :
        LET wasActive == isActive
            check == checkIfActive(args.href, loaded)
            scan == processCodeElements(World(dom, records, observing), loaded,
                        check.isActive, check.activeElements, 0)
        IN  /\ calls' = <<ApiCall("storage.sync.get", DefaultConfig, ok)>>
            /\ config' = loaded
            /\ isActive' = check.isActive
            /\ activeElements' = check.activeElements
            /\ IF ~wasActive /\ check.isActive
               THEN /\ Len(scan.world.dom) <= MaxNodes
                    /\ dom' = scan.world.dom
                    /\ records' = scan.world.records
                    /\ ret' = Return(scan.result)
               ELSE UNCHANGED <<dom, records, ret>>
    /\ UNCHANGED <<pc, fn, args, observing, core>>
    /\ UNCHANGED <<storage, tabs, form, activeUrlsState, status>>

\* the observer's callback on the records queued so far
MutationCallback ==
    /\ pc = "listening"
    /\ observing
    /\ records # <<>>
    /\ LET w == ForEachMutation(World(dom, <<>>, TRUE), config, isActive,
                                activeElements, records, 1, 1)
       IN  /\ Len(w.dom) <= MaxNodes
           /\ dom' = w.dom
           /\ records' = w.records
    /\ UNCHANGED <<pc, fn, args, ret, config, isActive, activeElements, observing, core, extension>>

\* a script of the page appends a subtree to document.body
PageAppends ==
    /\ pc = "listening"
    /\ \E t \in PageTrees :
        /\ Len(dom) + TreeSize(t) <= MaxNodes
        /\ dom' = appendChild(dom, BodyId, t)
        /\ records' = Observe(World(dom, records, observing), dom',
                              MutationRecord(BodyId, <<Len(dom) + 1>>)).records
    /\ UNCHANGED <<pc, fn, args, ret, config, isActive, activeElements, observing, core, extension>>

NextContent == init \/ handleMessage \/ MutationCallback \/ PageAppends

SpecContent == InitContent /\ [][NextContent]_vars

\* the links the content script has made: they carry the href it set
ScriptLinks(d) ==
    {n \in 1..Len(d) : d[n].nodeType = ELEMENT_NODE /\ d[n].href # Null}

\* the element has been converted: its one child is a link of the script
Converted(d, e) ==
    /\ d[e].nodeType = ELEMENT_NODE
    /\ Len(d[e].childNodes) = 1
    /\ d[e].childNodes[1] \in ScriptLinks(d)

\* element.querySelectorAll('a')
LinksIn(d, e) ==
    LET below == Tail(Preorder(d, e))
    IN  {below[k] : k \in {j \in 1..Len(below) : d[below[j]].tagName = TAG_A}}

\* C16: once an element has been converted, every later scan pass or mutation
\* callback finds it invalid, converts nothing in it and leaves it with
\* exactly one link.
C16_Idempotent ==
    [][\A e \in 1..Len(dom) :
          Converted(dom, e)
          => /\ ~validateCodeElement(dom, e).valid
             /\ dom'[e] = dom[e]
             /\ LinksIn(dom', e) = LinksIn(dom, e)
             /\ Cardinality(LinksIn(dom', e)) = 1]_vars

\* the tag is one of the list
TagIn(tagName, tags) == \E k \in 1..Len(tags) : tags[k] = toLowerCase(tagName)

\* the links made in the step
NewLinks == {n \in ScriptLinks(dom') : n > Len(dom)}

\* the elements a scan of the document converts: in the list, valid, allowed
Eligible(d, cfg, tags) ==
    {e \in 1..Len(d) :
        /\ d[e].nodeType = ELEMENT_NODE
        /\ TagIn(d[e].tagName, tags)
        /\ validateCodeElement(d, e).valid
        /\ isUncAllowed(validateCodeElement(d, e).text.v, cfg.allowedUncs)}

\* init or handleMessage runs processCodeElements() on the document
ScanPass == isActive' /\ (pc = "start" \/ (pc = "listening" /\ ~isActive))

\* the element still has the children it had, the text ones as they were
ChildrenKept(e) ==
    /\ Len(dom'[e].childNodes) >= Len(dom[e].childNodes)
    /\ \A k \in 1..Len(dom[e].childNodes) :
        LET c == dom[e].childNodes[k]
        IN  /\ dom'[e].childNodes[k] = c
            /\ dom[c].nodeType # ELEMENT_NODE => dom'[c] = dom[c]

\* C17: in one scan pass on an active page an element is converted if and only
\* if validateCodeElement reports it valid and isUncAllowed accepts its text;
\* the count returned is the number of these elements, and the other elements
\* neither stop the pass nor are altered.
C17_ScanPass ==
    [][ScanPass =>
        LET eligible == Eligible(dom, config', activeElements')
        IN  /\ ret' = Return(Cardinality(eligible))
            /\ Cardinality(NewLinks) = Cardinality(eligible)
            /\ \A e \in 1..Len(dom) :
                IF e \in eligible
                THEN Converted(dom', e) /\ dom'[e].childNodes[1] \in NewLinks
                ELSE dom[e].nodeType = ELEMENT_NODE
                        => ChildrenKept(e) /\ dom'[e].childNodes = dom[e].childNodes]_vars

\* a pass over a text that is no UNC path and, after it, a valid one: one
\* conversion, of the second
C17_Witness ==
    /\ pc = "listening"
    /\ ret.kind = "return"
    /\ ret.value = 1
    /\ \E e \in 1..Len(dom), f \in 1..Len(dom) :
        /\ e < f
        /\ dom[e].tagName = TAG_CODE /\ dom[f].tagName = TAG_CODE
        /\ Len(dom[e].childNodes) = 1
        /\ dom[dom[e].childNodes[1]].data = InvalidText
        /\ Converted(dom, f)

\* C18: a converted element ends up with a single child, a link whose href is
\* convertUncToUrl(text, the configured scheme) and whose text is the original
\* UNC text; an element that is not converted keeps its text and gets no link.
C18_LinkContent ==
    [][/\ \A n \in NewLinks :
            LET e == dom'[n].parent
                text == textContent(dom', n)
            IN  /\ e # 0
                /\ dom'[e].childNodes = <<n>>
                /\ dom'[n].tagName = TAG_A
                /\ dom'[n].href = Str(convertUncToUrl(text, config'.scheme))
                /\ textContent(dom', e) = text
                /\ e <= Len(dom)
                    => /\ Len(dom[e].childNodes) = 1
                       /\ dom[dom[e].childNodes[1]].nodeType = TEXT_NODE
                       /\ dom[dom[e].childNodes[1]].data = text
       /\ \A e \in 1..Len(dom) :
            (/\ dom[e].nodeType = ELEMENT_NODE
             /\ \A n \in NewLinks : dom'[n].parent # e)
            => /\ ChildrenKept(e)
               /\ dom'[e].href = dom[e].href
               /\ \A k \in 1..Len(dom'[e].childNodes) :
                    dom'[e].childNodes[k] \notin NewLinks]_vars

\* \\A\ converted under the scheme 'a': the link reads \\A\ and leads to a://A/
C18_Witness ==
    /\ pc = "listening"
    /\ config.scheme = <<LOWER_A>>
    /\ \E e \in 1..Len(dom) :
        /\ Converted(dom, e)
        /\ LET link == dom[e].childNodes[1]
           IN  /\ dom[link].href = Str(<<LOWER_A, COLON, SLASH, SLASH, UPPER_A, SLASH>>)
               /\ Len(dom[link].childNodes) = 1
               /\ dom[dom[link].childNodes[1]].nodeType = TEXT_NODE
               /\ dom[dom[link].childNodes[1]].data = OtherText

\* C19: only elements whose tag is in the elements list of the scope entry
\* matched for the page are converted; elements with other tags are left as
\* they are, and nothing is converted when no entry matches or the matched
\* entry's list is empty.
C19_ListedTagsOnly ==
    [][LET entry == getActiveUrlEntry(args.href, config'.activeUrls,
                                      config'.htmlElements)
       IN  /\ \A n \in NewLinks :
                /\ entry.type = "object"
                /\ TagIn(dom'[dom'[n].parent].tagName, entry.elements)
           /\ (entry.type = "null" \/ Len(entry.elements) = 0)
                => ScriptLinks(dom') = ScriptLinks(dom)
           /\ \A e \in 1..Len(dom) :
                (/\ dom[e].nodeType = ELEMENT_NODE
                 /\ entry.type = "object" => ~TagIn(dom[e].tagName, entry.elements))
                => ChildrenKept(e)]_vars

\* a p with a valid path stays as it is next to a converted code
C19_Witness ==
    /\ pc = "listening"
    /\ isActive
    /\ ~TagIn(TAG_P, activeElements)
    /\ \E e \in 1..Len(dom), f \in 1..Len(dom) :
        /\ dom[e].tagName = TAG_P
        /\ Len(dom[e].childNodes) = 1
        /\ dom[dom[e].childNodes[1]].nodeType = TEXT_NODE
        /\ dom[dom[e].childNodes[1]].data = ValidText
        /\ dom[f].tagName = TAG_CODE
        /\ Converted(dom, f)

----------------------------------------------------------------------------
(* The core called again and again *)

\* UNC paths with and without a forbidden character after the backslashes
CallTexts ==
    {<<BACKSLASH, BACKSLASH>> \o t : t \in SeqsUpTo({LOWER_A, COLON}, MaxTail)}

CallLists == {Array(<<>>), Array(<<<<BACKSLASH, BACKSLASH, UPPER_A>>>>)}

\* the calls: the function and its arguments
Calls ==
    {[fn |-> "isValidUncPath", args |-> [text |-> Str(t)]] : t \in CallTexts}
    \cup {[fn |-> "isUncAllowed", args |-> [uncPath |-> t, allowedPrefixes |-> l]] :
            t \in CallTexts, l \in CallLists}
    \cup {[fn |-> "isUrlAllowed", args |-> [currentUrl |-> PageUrl, allowedUrls |-> l]] :
            l \in {Array(<<>>), Array(<<MatchingPrefix>>), Array(<<OtherPrefix>>)}}
    \cup {[fn |-> "convertUncToUrl", args |-> [uncPath |-> t, scheme |-> <<LOWER_A>>]] :
            t \in CallTexts}

InitCalls ==
    /\ pc = "call"
    /\ ret = NoRet
    /\ dom = EmptyDocument
    /\ ScriptLoaded
    /\ CoreLoaded
    /\ ExtensionLoaded
    /\ \E call \in Calls : fn = call.fn /\ args = call.args

\* isValidUncPath on the regex objects of the module
CallIsValidUncPathAt ==
    /\ pc = "call"
    /\ fn = "isValidUncPath"
    /\ LET done == isValidUncPathAt(args.text, lastIndex)
       IN  ret' = done.ret /\ lastIndex' = done.lastIndex
    /\ pc' = "return"
    /\ UNCHANGED <<fn, args, page, prev, extension>>

\* the caller goes on to its second call
NextCall ==
    /\ pc = "return"
    /\ prev.fn = "none"
    /\ prev' = [fn |-> fn, args |-> args]
    /\ \E call \in Calls : fn' = call.fn /\ args' = call.args
    /\ ret' = NoRet
    /\ pc' = "call"
    /\ UNCHANGED <<page, lastIndex, extension>>

NextCalls ==
    \/ CallIsValidUncPathAt
    \/ CallIsUncAllowed
    \/ CallIsUrlAllowed
    \/ CallConvertUncToUrl
    \/ NextCall

SpecCalls == InitCalls /\ [][NextCalls]_vars

\* what the call returns when it is the first one made
FirstResult(f, a) ==
    CASE f = "isValidUncPath" -> isValidUncPath(a.text)
      [] f = "isUncAllowed" -> Return(isUncAllowed(a.uncPath, a.allowedPrefixes))
      [] f = "isUrlAllowed" -> Return(isUrlAllowed(a.currentUrl, a.allowedUrls))
      [] f = "convertUncToUrl" -> Return(convertUncToUrl(a.uncPath, a.scheme))

\* C20: isValidUncPath, isUncAllowed, isUrlAllowed and convertUncToUrl return
\* for the same arguments the same result whatever calls were made before (no
\* regex position is carried from call to call), and leave their arguments as
\* they were passed.
C20_ArgumentsOnly ==
    [][(pc = "call" /\ pc' = "return")
        => /\ ret' = FirstResult(fn, args)
           /\ args' = args
           /\ lastIndex' = lastIndex]_vars

\* \\:a is turned down after \\a: has been: the colon of the second lies before
\* the place where the search in the first ended
C20_Witness ==
    /\ pc = "return"
    /\ prev.fn = "isValidUncPath"
    /\ prev.args.text = Str(<<BACKSLASH, BACKSLASH, LOWER_A, COLON>>)
    /\ fn = "isValidUncPath"
    /\ args.text = Str(<<BACKSLASH, BACKSLASH, COLON, LOWER_A>>)
    /\ ret = Return(FALSE)

----------------------------------------------------------------------------
(* The eligibility check leaves the document alone *)

----------------------------------------------------------------------------
(* The content script on a configuration change *)

\* C22: once a configUpdated message has been handled, the activity flag and
\* the active element tags are those of the new configuration and every
\* element that is eligible and allowed under it has been converted, whether
\* or not the page was active before the message.
C22_Reprocessed ==
    [][(pc = "listening" /\ config' # config)
        => /\ isActive' = checkIfActive(args.href, config').isActive
           /\ activeElements' = checkIfActive(args.href, config').activeElements
           /\ \A e \in Eligible(dom, config', activeElements') :
                Converted(dom', e)]_vars

----------------------------------------------------------------------------
(* The element lists of the options page, parsed and written back *)

\* tag names as they are typed and as they are stored: 'a', 'p', 'A', ' a',
\* '' and 'a p'
TypedTags ==
    {TagA, TagP, <<UPPER_A>>, <<SPACE, LOWER_A>>, <<>>, <<LOWER_A, SPACE, LOWER_P>>}
TypedLists == SeqsUpTo(TypedTags, MaxList)

InitParse ==
    /\ pc = "call"
    /\ ret = NoRet
    /\ dom = EmptyDocument
    /\ ScriptLoaded
    /\ CoreLoaded
    /\ ExtensionLoaded
    /\ \/ /\ fn = "parseHtmlElements"
          /\ \E text \in DefaultStrings : args = [text |-> text]
       \/ /\ fn = "htmlElementsToString"
          /\ \E arr \in TypedLists : args = [arr |-> arr]

CallParseHtmlElements ==
    /\ pc = "call"
    /\ fn = "parseHtmlElements"
    /\ ret' = Return(parseHtmlElements(args.text))
    /\ pc' = "return"
    /\ UNCHANGED <<fn, args, page, core, extension>>

CallHtmlElementsToString ==
    /\ pc = "call"
    /\ fn = "htmlElementsToString"
    /\ ret' = Return(htmlElementsToString(args.arr))
    /\ pc' = "return"
    /\ UNCHANGED <<fn, args, page, core, extension>>

\* the caller hands the list to htmlElementsToString and the string to
\* parseHtmlElements
HandOver ==
    /\ pc = "return"
    /\ fn \in {"parseHtmlElements", "htmlElementsToString"}
    /\ prev' = [fn |-> fn, args |-> args]
    /\ IF fn = "parseHtmlElements"
       THEN fn' = "htmlElementsToString" /\ args' = [arr |-> ret.value]
       ELSE fn' = "parseHtmlElements" /\ args' = [text |-> ret.value]
    /\ ret' = NoRet
    /\ pc' = "call"
    /\ UNCHANGED <<page, lastIndex, extension>>

NextParse == CallParseHtmlElements \/ CallHtmlElementsToString \/ HandOver

SpecParse == InitParse /\ [][NextParse]_vars

\* the places of the semicolons of s, with the places before and after s
Cuts(s) == {0, Len(s) + 1} \cup {i \in 1..Len(s) : s[i] = SEMICOLON}

\* the k-th cut from the left
Cut(s, k) == CHOOSE c \in Cuts(s) : Cardinality({d \in Cuts(s) : d < c}) = k - 1

\* s without the white space at its two ends
RECURSIVE Strip(_)
Strip(s) ==
    IF Len(s) = 0 THEN s
    ELSE IF s[1] \in WHITESPACE THEN Strip(Tail(s))
    ELSE IF s[Len(s)] \in WHITESPACE THEN Strip(SubSeq(s, 1, Len(s) - 1))
    ELSE s

\* s with its capitals made small
Lowered(s) == [i \in 1..Len(s) |-> IF s[i] \in 65..90 THEN s[i] + 32 ELSE s[i]]

\* the k-th stretch of s between two cuts, stripped and lowered
Segment(s, k) == Lowered(Strip(SubSeq(s, Cut(s, k) + 1, Cut(s, k + 1) - 1)))

\* the stretches of s that are not empty, from the left
Kept(s) == {k \in 1..(Cardinality(Cuts(s)) - 1) : Len(Segment(s, k)) > 0}

\* the k-th member of the set of numbers K
Nth(K, k) == CHOOSE n \in K : Cardinality({m \in K : m < n}) = k - 1

ParseReturned == pc = "return" /\ fn = "parseHtmlElements"

\* C23: parseHtmlElements splits on ';', trims and lowercases each segment and
\* drops the empty ones, keeping order; parsing what htmlElementsToString wrote
\* of a list of clean tags gives the list back; and parsing, writing and
\* parsing again gives what the first parsing gave, for every string.
C23_ParseRoundTrip ==
    ParseReturned =>
        /\ ret.kind = "return"
        /\ Len(ret.value) = Cardinality(Kept(args.text))
        /\ \A k \in 1..Len(ret.value) :
            /\ ret.value[k] = Segment(args.text, Nth(Kept(args.text), k))
            /\ CleanTag(ret.value[k])
        /\ (/\ prev.fn = "htmlElementsToString"
            /\ \A k \in 1..Len(prev.args.arr) : CleanTag(prev.args.arr[k]))
            => ret.value = prev.args.arr
        /\ parseHtmlElements(htmlElementsToString(ret.value)) = ret.value

\* the list of 'a' and 'p' written as 'a;p' and parsed into 'a' and 'p' again
C23_Witness ==
    /\ ParseReturned
    /\ prev.fn = "htmlElementsToString"
    /\ prev.args.arr = <<TagA, TagP>>
    /\ args.text = DefaultAP
    /\ ret.value = <<TagA, TagP>>

----------------------------------------------------------------------------
(* The validator on more than two leading backslashes (specification
   SpecValid) *)

\* s begins with three backslashes
ThreeLeadingBackslashes(s) ==
    Len(s) >= 3 /\ s[1] = BACKSLASH /\ s[2] = BACKSLASH /\ s[3] = BACKSLASH

\* C29: isValidUncPath accepts a string only if it begins with exactly two
\* leading separators: a string whose first three characters are all
\* backslashes is rejected.
C29_ExactlyTwo ==
    (ValidReturned /\ ThreeLeadingBackslashes(args.text.v))
    => ret = Return(FALSE)

----------------------------------------------------------------------------
(* The options page: the user edits the form, saves and resets, and closes
   the page once a write to storage has gone through (specification
   SpecOptions) *)

\* the rows of the URL list
MaxRows == 1

TAG_LOWER_A == <<LOWER_A>>
TAG_LOWER_P == <<LOWER_P>>

\* what the user types into the scheme field: a scheme with spaces around
\* it (the field is blank as long as no settings were loaded)
SchemeTexts == {<<SPACE, LOWER_A, SPACE>>}

\* into the HTML-elements field: nothing, and 'A;p'
ElementsTexts == {<<>>, <<UPPER_A, SEMICOLON, LOWER_P>>}

\* into the URL field of a row: a URL after a space
UrlTexts == {<<SPACE, LOWER_A>>}

\* what storage holds when the page is opened: a configuration saved before
StoredSettings ==
    {Storage(KEYS, Config(DEFAULT_SCHEME, <<LOWER_A, SEMICOLON, LOWER_P>>,
                Array(<<ScopeEntry(TAG_LOWER_A, Array(<<TAG_LOWER_P>>))>>),
                Array(<<<<BACKSLASH, BACKSLASH, LOWER_A>>>>)))}

InitOptions ==
    /\ pc = "start"
    /\ fn = "none"
    /\ args = [page |-> "options"]
    /\ ret = NoRet
    /\ dom = EmptyDocument
    /\ ScriptLoaded
    /\ CoreLoaded
    /\ \E st \in StoredSettings : storage = st
    /\ tabs = <<>>
    /\ calls = <<>>
    /\ OptionsLoaded

\* the page as one value, and the page set to one
ThisPage == Options(form, activeUrlsState, status)

Becomes(o) ==
    /\ form' = o.form
    /\ activeUrlsState' = o.activeUrlsState
    /\ status' = o.status

\* loadSettings() at the end of the script
LoadSettings ==
    /\ pc = "start"
    /\ pc' = "ready"
    /\ fn' = "loadSettings"
    /\ \E ok \in BOOLEAN :
        /\ calls' = <<ApiCall("storage.sync.get", DEFAULTS, ok)>>
        /\ Becomes(loadSettings(storage, ThisPage, ok))
    /\ UNCHANGED <<args, ret, page, core, storage, tabs>>

\* the user types into the scheme field: the input event runs
\* updateSchemePreview
TypeScheme ==
    /\ pc = "ready"
    /\ \E v \in SchemeTexts :
        form' = updateSchemePreview([form EXCEPT !.scheme = v])
    /\ fn' = "none"
    /\ calls' = <<>>
    /\ UNCHANGED <<pc, args, ret, page, core, storage, tabs, activeUrlsState, status>>

\* the user types into the HTML-elements field: the input event runs
\* handleHtmlElementsChange
TypeHtmlElements ==
    /\ pc = "ready"
    /\ \E v \in ElementsTexts :
        Becomes(handleHtmlElementsChange(
            Options([form EXCEPT !.htmlElements = v], activeUrlsState, status)))
    /\ fn' = "none"
    /\ calls' = <<>>
    /\ UNCHANGED <<pc, args, ret, page, core, storage, tabs>>

\* the user types into the URL field of a row, which has no listener
TypeUrl ==
    /\ pc = "ready"
    /\ \E i \in 1..Len(form.rows), v \in UrlTexts :
        form' = [form EXCEPT !.rows[i].url = v]
    /\ fn' = "none"
    /\ calls' = <<>>
    /\ UNCHANGED <<pc, args, ret, page, core, storage, tabs, activeUrlsState, status>>

\* the user clicks a checkbox of a row, which has no listener
ToggleCheckbox ==
    /\ pc = "ready"
    /\ \E i \in 1..Len(form.rows) : \E k \in 1..Len(form.rows[i].boxes) :
        form' = [form EXCEPT !.rows[i].boxes[k].checked = ~@]
    /\ fn' = "none"
    /\ calls' = <<>>
    /\ UNCHANGED <<pc, args, ret, page, core, storage, tabs, activeUrlsState, status>>

\* the click on the add button
AddUrlRow ==
    /\ pc = "ready"
    /\ Len(activeUrlsState) < MaxRows
    /\ Becomes(addUrlRow(ThisPage))
    /\ fn' = "none"
    /\ calls' = <<>>
    /\ UNCHANGED <<pc, args, ret, page, core, storage, tabs>>

\* the click on the delete button of a row
RemoveUrlRow ==
    /\ pc = "ready"
    /\ \E i \in 1..Len(form.rows) : Becomes(removeUrlRow(ThisPage, i - 1))
    /\ fn' = "none"
    /\ calls' = <<>>
    /\ UNCHANGED <<pc, args, ret, page, core, storage, tabs>>

\* the submit of the form: saveSettings(event); ok tells whether
\* storage.sync.set resolves
SaveSettings ==
    /\ pc = "ready"
    /\ fn' = "saveSettings"
    /\ LET validation == validateSettings(form)
       IN  IF ~validation.valid
           THEN /\ status' = showStatus(validation.error, validation.url, "error")
                /\ calls' = <<>>
                /\ UNCHANGED <<pc, storage, form, activeUrlsState>>
           ELSE LET cfg == SavedConfig(form)
                IN  \E ok \in BOOLEAN :
                      /\ calls' = <<ApiCall("storage.sync.set", cfg, ok)>>
                      /\ IF ok
                         THEN /\ pc' = "closed"
                              /\ storage' = StorageSet(storage, cfg)
                              /\ activeUrlsState' = cfg.activeUrls.v
                              /\ form' = [form EXCEPT !.rows =
                                    renderUrlList(cfg.activeUrls.v,
                                        parseHtmlElements(form.htmlElements))]
                              /\ status' = showStatus("Settings saved successfully!",
                                                      <<>>, "success")
                         ELSE /\ status' = showStatus("Failed to save settings",
                                                      <<>>, "error")
                              /\ UNCHANGED <<pc, storage, form, activeUrlsState>>
    /\ UNCHANGED <<args, ret, page, core, tabs>>

\* the click on the reset button: resetSettings(); confirmed is the user's
\* answer, written tells whether storage.sync.set resolves and read whether
\* the storage.sync.get of loadSettings does
ResetSettings ==
    /\ pc = "ready"
    /\ fn' = "resetSettings"
    /\ \E confirmed \in BOOLEAN :
        IF ~confirmed
        THEN /\ calls' = <<ApiCall("confirm", DEFAULTS, FALSE)>>
             /\ UNCHANGED <<pc, storage, form, activeUrlsState, status>>
        ELSE \E written \in BOOLEAN :
            IF ~written
            THEN /\ calls' = <<ApiCall("confirm", DEFAULTS, TRUE),
                               ApiCall("storage.sync.set", DEFAULTS, FALSE)>>
                 /\ status' = showStatus("Failed to reset settings", <<>>, "error")
                 /\ UNCHANGED <<pc, storage, form, activeUrlsState>>
            ELSE \E read \in BOOLEAN :
                LET st == StorageSet(storage, DEFAULTS)
                    loaded == loadSettings(st, ThisPage, read)
                IN  /\ calls' = <<ApiCall("confirm", DEFAULTS, TRUE),
                                  ApiCall("storage.sync.set", DEFAULTS, TRUE),
                                  ApiCall("storage.sync.get", DEFAULTS, read)>>
                    /\ pc' = "closed"
                    /\ storage' = st
                    /\ form' = loaded.form
                    /\ activeUrlsState' = loaded.activeUrlsState
                    /\ status' = showStatus("Settings reset to defaults",
                                            <<>>, "success")
    /\ UNCHANGED <<args, ret, page, core, tabs>>

NextOptions ==
    \/ LoadSettings
    \/ TypeScheme
    \/ TypeHtmlElements
    \/ TypeUrl
    \/ ToggleCheckbox
    \/ AddUrlRow
    \/ RemoveUrlRow
    \/ SaveSettings
    \/ ResetSettings

SpecOptions == InitOptions /\ [][NextOptions]_vars

\* a step of saveSettings, and of resetSettings
SaveStep == pc = "ready" /\ fn' = "saveSettings"
ResetStep == pc = "ready" /\ fn' = "resetSettings"

\* the last handler called storage.sync.set, and the call resolved
SetCalled(cs) == \E k \in 1..Len(cs) : cs[k].api = "storage.sync.set"
SetResolved(cs) == \E k \in 1..Len(cs) : cs[k].api = "storage.sync.set" /\ cs[k].ok

\* the HTML-elements field parses to an empty list
FieldEmpty == parseHtmlElements(form.htmlElements) = <<>>

\* the rows with a non-empty URL (the row's URL is the trimmed value of its
\* input) and no checkbox checked
RowsWithoutElement ==
    {i \in 1..Len(form.rows) :
        /\ trim(form.rows[i].url) # <<>>
        /\ \A k \in 1..Len(form.rows[i].boxes) : ~form.rows[i].boxes[k].checked}

FirstRowWithoutElement ==
    CHOOSE i \in RowsWithoutElement : \A j \in RowsWithoutElement : i <= j

\* C24: saveSettings writes nothing to storage when validation fails, i.e.
\* when the HTML-elements field parses to an empty list or some row with a
\* non-empty URL has no element selected; it then shows the corresponding
\* error, and the stored configuration is exactly what it was before.
C24_NothingWritten ==
    [][(SaveStep /\ (FieldEmpty \/ RowsWithoutElement # {}))
        => /\ ~SetCalled(calls')
           /\ storage' = storage
           /\ status' =
                IF FieldEmpty
                THEN showStatus("HTML elements cannot be empty", <<>>, "error")
                ELSE showStatus("URL must have at least one element selected",
                        trim(form.rows[FirstRowWithoutElement].url), "error")]_vars

\* saveSettings has refused a form whose row has a URL and no element
\* selected, and storage holds what it held when the page was opened
C24_Witness ==
    /\ fn = "saveSettings"
    /\ ~FieldEmpty
    /\ RowsWithoutElement # {}
    /\ status.text = "URL must have at least one element selected"
    /\ status.type = "error"
    /\ calls = <<>>
    /\ storage \in StoredSettings

\* the form shows the configuration cfg
FormShows(f, cfg) ==
    /\ f.scheme = cfg.scheme
    /\ f.preview = cfg.scheme
    /\ f.htmlElements = cfg.htmlElements
    /\ f.rows = renderUrlList(cfg.activeUrls.v, parseHtmlElements(cfg.htmlElements))
    /\ f.allowedUncs = arrayToTextarea(cfg.allowedUncs.v)

\* the answer to confirm(), and the outcome of the calls after it
Confirmed(cs) == cs[1].api = "confirm" /\ cs[1].ok
GetResolved(cs) == \E k \in 1..Len(cs) : cs[k].api = "storage.sync.get" /\ cs[k].ok

RECURSIVE UrlsOf(_)
UrlsOf(entries) ==
    IF entries = <<>> THEN <<>>
    ELSE <<Head(entries).url>> \o UrlsOf(Tail(entries))

\* the trimmed URLs of the rows, the empty ones left out
RECURSIVE FilledUrls(_)
FilledUrls(rows) ==
    IF rows = <<>> THEN <<>>
    ELSE (IF trim(Head(rows).url) = <<>> THEN <<>> ELSE <<trim(Head(rows).url)>>)
            \o FilledUrls(Tail(rows))

\* a stored configuration is well-formed
WellFormedConfig(cfg) ==
    /\ Len(cfg.scheme) > 0
    /\ trim(cfg.scheme) = cfg.scheme
    /\ parseHtmlElements(cfg.htmlElements) # <<>>
    /\ \A k \in 1..Len(cfg.activeUrls.v) :
        LET entry == cfg.activeUrls.v[k]
        IN  /\ Len(entry.url) > 0
            /\ entry.elements.type = "array"
            /\ Len(entry.elements.v) > 0
            /\ \A e \in 1..Len(entry.elements.v) :
                includes(parseHtmlElements(cfg.htmlElements), entry.elements.v[e])

\* C30: after every successful saveSettings the stored configuration is
\* well-formed: scheme is a non-empty trimmed string (the default when the
\* field is blank), htmlElements parses to a non-empty tag list, every stored
\* activeUrls entry has a non-empty url and a non-empty elements list whose
\* members all occur in the stored htmlElements list; rows with an empty URL
\* are dropped.
C30_WellFormed ==
    [][(SaveStep /\ SetResolved(calls'))
        => /\ storage'.keys = KEYS
           /\ WellFormedConfig(storage'.values)
           /\ storage'.values.scheme =
                (IF trim(form.scheme) = <<>> THEN DEFAULT_SCHEME ELSE trim(form.scheme))
           /\ UrlsOf(storage'.values.activeUrls.v) = FilledUrls(form.rows)]_vars

\* a save has gone through from a form with a blank scheme field and a row
\* without URL: the default scheme and no entry are stored
C30_Witness ==
    /\ pc = "closed"
    /\ fn = "saveSettings"
    /\ SetResolved(calls)
    /\ form.scheme = <<>>
    /\ storage.values.scheme = DEFAULT_SCHEME
    /\ storage.values.htmlElements = <<LOWER_A, SEMICOLON, LOWER_P>>
    /\ storage.values.activeUrls.v = <<>>
    /\ storage \notin StoredSettings

----------------------------------------------------------------------------
(* The background script and the tabs of the browser (specification
   SpecBackground) *)

\* the tabs that are open
MaxTabs == 2

\* the URL of a tab out of the scope 'A'
OtherUrl == <<LOWER_P, LOWER_A>>

\* a tab without URL and without content script, a tab of the page in scope
\* with its content script, and a special page out of scope without one
TabKinds ==
    {Tab(Undefined, FALSE, FALSE, "", ""),
     Tab(Str(PageUrl), TRUE, FALSE, "", ""),
     Tab(Str(OtherUrl), FALSE, TRUE, "", "")}

\* what storage.sync may hold: the scheme only, a configuration without
\* scopes, and one with the scope 'A'
BackgroundStores ==
    {Storage({"scheme"}, Config(TAG_LOWER_A, DEFAULT_ELEMENTS, Array(<<>>), Array(<<>>))),
     Storage(KEYS, Config(TAG_LOWER_A, TAG_LOWER_P, Array(<<>>),
                Array(<<<<BACKSLASH, BACKSLASH>>>>))),
     Storage(KEYS, Config(TAG_LOWER_A, TAG_LOWER_P,
                Array(<<ScopeEntry(MatchingPrefix, Array(<<TAG_LOWER_P>>))>>),
                Array(<<>>)))}

InitBackground ==
    /\ pc = "start"
    /\ fn = "none"
    /\ args = [areaName |-> ""]
    /\ ret = NoRet
    /\ dom = EmptyDocument
    /\ ScriptLoaded
    /\ CoreLoaded
    /\ \E st \in BackgroundStores : storage = st
    /\ \E ts \in SeqsUpTo(TabKinds, MaxTabs) : tabs = ts
    /\ calls = <<>>
    /\ OptionsLoaded

\* the handler has left the browser as b
Leaves(b) == tabs' = b.tabs /\ calls' = b.calls

\* the end of the script: the icon of the active tab of the current window,
\* if tabs.query resolves with one
Startup ==
    /\ pc = "start"
    /\ pc' = "running"
    /\ fn' = "startup"
    /\ \/ Leaves(Browser(tabs, <<ApiCall("tabs.query", [tabId |-> 0], FALSE)>>))
       \/ /\ tabs = <<>>
          /\ Leaves(Browser(tabs, <<ApiCall("tabs.query", [tabId |-> 0], TRUE)>>))
       \/ \E t \in 1..Len(tabs), read \in BOOLEAN :
            Leaves(updateIconIfUrl(
                Browser(tabs, <<ApiCall("tabs.query", [tabId |-> t], TRUE)>>),
                storage, t, read))
    /\ UNCHANGED <<args, ret, page, core, storage, form, activeUrlsState, status>>

\* tabs.onUpdated
HandleTabUpdated ==
    /\ pc = "running"
    /\ fn' = "handleTabUpdated"
    /\ \E t \in 1..Len(tabs), change \in {"url", "complete", "title"}, read \in BOOLEAN :
        Leaves(handleTabUpdated(tabs, storage, t, change, read))
    /\ UNCHANGED <<pc, args, ret, page, core, storage, form, activeUrlsState, status>>

\* tabs.onActivated
HandleTabActivated ==
    /\ pc = "running"
    /\ fn' = "handleTabActivated"
    /\ \E t \in 1..Len(tabs), got \in BOOLEAN, read \in BOOLEAN :
        Leaves(handleTabActivated(tabs, storage, t, got, read))
    /\ UNCHANGED <<pc, args, ret, page, core, storage, form, activeUrlsState, status>>

\* storage.onChanged: the sync area has changed to another configuration,
\* or another area has changed
HandleStorageChanged ==
    /\ pc = "running"
    /\ fn' = "handleStorageChanged"
    /\ \E areaName \in {"sync", "local"}, st \in BackgroundStores :
        /\ areaName = "sync" => st # storage
        /\ areaName = "local" => st = storage
        /\ storage' = st
        /\ args' = [areaName |-> areaName]
        /\ \E read \in BOOLEAN :
            Leaves(handleStorageChanged(tabs, st, areaName, read))
    /\ UNCHANGED <<pc, ret, page, core, form, activeUrlsState, status>>

\* loadConfig() called on its own
CallLoadConfig ==
    /\ pc = "running"
    /\ fn' = "loadConfig"
    /\ \E ok \in BOOLEAN :
        /\ ret' = Return(loadConfig(storage, ok))
        /\ calls' = <<ApiCall("storage.sync.get", [tabId |-> 0], ok)>>
    /\ UNCHANGED <<pc, args, page, core, storage, tabs, form, activeUrlsState, status>>

NextBackground ==
    \/ Startup
    \/ HandleTabUpdated
    \/ HandleTabActivated
    \/ HandleStorageChanged
    \/ CallLoadConfig

SpecBackground == InitBackground /\ [][NextBackground]_vars

\* the icon and the title of a tab are the active ones, the inactive ones
ShowsActive(tab) == tab.icon = ICONS_ACTIVE /\ tab.title = TITLE_ACTIVE
ShowsInactive(tab) == tab.icon = ICONS_INACTIVE /\ tab.title = TITLE_INACTIVE

\* the stored activeUrls list is empty or some stored entry has a url that
\* is a case-insensitive prefix of url
InStoredScope(url, st) ==
    LET activeUrls == StorageGet(st, DEFAULTS).activeUrls.v
    IN  \/ Len(activeUrls) = 0
        \/ \E k \in 1..Len(activeUrls) :
            startsWith(toLowerCase(url), toLowerCase(activeUrls[k].url))

\* the decision of the content script on a page of that URL
ContentScriptActive(url, st) ==
    checkIfActive(url, StorageGet(st, DEFAULTS)).isActive

\* C25: updateIconForTab shows the active icon and title for a tab if and
\* only if the stored activeUrls list is empty or some stored entry has a url
\* that is a case-insensitive prefix of the tab URL, and the inactive icon
\* and title otherwise; so the icon agrees with the content script's
\* decision for that page.  (Stated for the calls whose storage read went
\* through, on tabs whose icon can be set.)
C25_IconAgrees ==
    \A k \in 1..Len(calls) :
        (/\ calls[k].api = "updateIconForTab"
         /\ calls[k].arg.read
         /\ ~tabs[calls[k].arg.tabId].special)
        => LET tab == tabs[calls[k].arg.tabId]
           IN  /\ InStoredScope(tab.url.v, storage) => ShowsActive(tab)
               /\ ~InStoredScope(tab.url.v, storage) => ShowsInactive(tab)
               /\ ShowsActive(tab) <=> ContentScriptActive(tab.url.v, storage)

\* loadConfig has returned
LoadConfigReturned == fn = "loadConfig" /\ ret.kind = "return"

\* C26: the background loadConfig never fails: when reading storage throws
\* it returns the complete default configuration (scheme 'uncopener',
\* htmlElements 'code', activeUrls empty, allowedUncs empty), and when
\* storage holds only some keys the missing keys take these defaults.
C26_CompleteDefaults ==
    /\ fn = "loadConfig" => ret.kind = "return"
    /\ LoadConfigReturned
        => /\ DOMAIN ret.value = KEYS
           /\ ~calls[1].ok => ret.value = DEFAULTS
           /\ calls[1].ok
                => \A key \in KEYS \ storage.keys : ret.value[key] = DEFAULTS[key]

\* a step of handleStorageChanged
StorageChangedStep == pc = "running" /\ fn' = "handleStorageChanged"

\* the handler has sent {type: 'configUpdated'} to tab t, and the number of
\* times it has
SendsTo(cs, t) ==
    {k \in 1..Len(cs) : /\ cs[k].api = "tabs.sendMessage"
                        /\ cs[k].arg.tabId = t
                        /\ cs[k].arg.type = "configUpdated"}

\* the handler has called updateIconForTab for tab t
RefreshesOf(cs, t) ==
    {k \in 1..Len(cs) : cs[k].api = "updateIconForTab" /\ cs[k].arg.tabId = t}

----------------------------------------------------------------------------
(* isUncAllowed against the plain prefix test *)

\* some prefix of the list, lowercased, is a string prefix of the lowercased
\* path
PlainPrefixTest(uncPath, list) ==
    \E k \in 1..Len(list) :
        startsWith(toLowerCase(uncPath), toLowerCase(list[k]))

\* C31: for every non-empty prefix list, isUncAllowed returns exactly whether
\* some prefix, lowercased, is a string prefix of the lowercased path; the
\* exact-match branch and the trailing-backslash branch never give another
\* answer than the plain prefix test.
C31_PlainPrefix ==
    (UncReturned /\ args.allowedPrefixes.type = "array"
        /\ Len(args.allowedPrefixes.v) > 0)
    => ret = Return(PlainPrefixTest(args.uncPath, args.allowedPrefixes.v))

\* the path A\a written with a capital has been allowed under a list of two
\* prefixes whose second, a\, ends with a backslash and whose first, \\,
\* does not match
C31_Witness ==
    /\ UncReturned
    /\ args.allowedPrefixes =
            Array(<< <<BACKSLASH, BACKSLASH>>, <<LOWER_A, BACKSLASH>> >>)
    /\ args.uncPath = <<UPPER_A, BACKSLASH, LOWER_A>>
    /\ ret = Return(TRUE)

----------------------------------------------------------------------------
(* convertUncToUrl read backwards *)

\* s with every forward slash replaced by a backslash
ReplaceSlashes(s) ==
    [i \in 1..Len(s) |-> IF s[i] = SLASH THEN BACKSLASH ELSE s[i]]

\* the part of url after the scheme and "://", its forward slashes replaced
\* by backslashes, behind two backslashes
UncOfUrl(url, scheme) ==
    <<BACKSLASH, BACKSLASH>>
        \o ReplaceSlashes(SubSeq(url, Len(scheme) + 4, Len(url)))

\* p is accepted by the validator and holds no forward slash
ValidWithoutSlash(p) ==
    /\ isValidUncPath(Str(p)) = Return(TRUE)
    /\ \A i \in 1..Len(p) : p[i] # SLASH

\* C36: for every valid UNC path p without a forward slash and every scheme
\* s, the part of convertUncToUrl(p, s) after s and "://", with forward
\* slashes replaced by backslashes and two backslashes prepended, is p again;
\* hence two such paths that differ are converted to URLs that differ.
C36_RoundTrip ==
    (ConvertReturned /\ ValidWithoutSlash(args.uncPath))
    => /\ ret.kind = "return"
       /\ UncOfUrl(ret.value, args.scheme) = args.uncPath
       /\ \A q \in ConvPaths :
            (ValidWithoutSlash(q) /\ convertUncToUrl(q, args.scheme) = ret.value)
            => q = args.uncPath

\* the path \\a\ has been converted under a scheme that itself holds a
\* backslash
C36_Witness ==
    /\ ConvertReturned
    /\ args.uncPath = <<BACKSLASH, BACKSLASH, LOWER_A, BACKSLASH>>
    /\ args.scheme = <<LOWER_A, BACKSLASH>>
    /\ ret = Return(<<LOWER_A, BACKSLASH, COLON, SLASH, SLASH, LOWER_A, SLASH>>)

----------------------------------------------------------------------------
(* The content script on a page it is not active on *)

\* the state in which nothing is to be converted, after the step
Idle == ~isActive' \/ Len(activeElements') = 0

\* a step of the content script: init, a configUpdated message or a run of
\* the observer's callback
ScriptStep == init \/ handleMessage \/ MutationCallback

\* C33: no element is converted while isActive is false or the list of active
\* elements is empty: scan passes and mutation callbacks that run in that
\* state, also callbacks that arrive after a configuration update made the
\* page inactive, change nothing in the document.
C33_IdleChangesNothing ==
    [][Idle => /\ NewLinks = {}
               /\ ScriptLinks(dom') = ScriptLinks(dom)
               /\ ScriptStep => dom' = dom]_vars

\* on an observed page that a configuration update has made inactive, no
\* record is left to deliver and a code element with a valid path, appended
\* to the body behind an element converted earlier, holds its text still,
\* though the configuration lists its tag and allows every path
C33_Witness ==
    /\ pc = "listening"
    /\ observing
    /\ ~isActive
    /\ records = <<>>
    /\ config.htmlElements = CodeTag
    /\ config.allowedUncs = Array(<<>>)
    /\ \E e \in 1..Len(dom), f \in 1..Len(dom) :
        /\ e < f
        /\ Converted(dom, e)
        /\ dom[f].tagName = TAG_CODE
        /\ dom[f].parent = BodyId
        /\ Len(dom[f].childNodes) = 1
        /\ dom[dom[f].childNodes[1]].nodeType = TEXT_NODE
        /\ dom[dom[f].childNodes[1]].data = ValidText

----------------------------------------------------------------------------
(* The content script when storage cannot be read *)

\* init or a configUpdated message, loadConfig being the first thing either
\* does
LoadStep == init \/ handleMessage

\* the storage.sync.get of the step has rejected
ReadRejected == calls' = <<ApiCall("storage.sync.get", DefaultConfig, FALSE)>>

\* C37: when loadConfig of the content script fails to read storage, the
\* configuration held before is kept unchanged (the built-in defaults when
\* nothing was loaded yet), no error propagates, and the activity check and
\* the scan that follow go by the configuration kept.
C37_ConfigRetained ==
    [][(LoadStep /\ ReadRejected)
        => LET check == checkIfActive(args.href, config)
               eligible == Eligible(dom, config, check.activeElements)
           IN  /\ config' = config
               /\ pc = "start" => config' = DefaultConfig
               /\ pc' = "listening"
               /\ isActive' = check.isActive
               /\ activeElements' = check.activeElements
               /\ IF check.isActive /\ (pc = "start" \/ ~isActive)
                  THEN /\ ret' = Return(Cardinality(eligible))
                       /\ Cardinality(NewLinks) = Cardinality(eligible)
                       /\ \A e \in eligible : Converted(dom', e)
                  ELSE dom' = dom /\ ret' = ret]_vars

\* the read of init has rejected and the scan has gone by the defaults: a
\* code element is converted under the scheme 'uncopener'
C37_DefaultsKept ==
    /\ pc = "listening"
    /\ calls = <<ApiCall("storage.sync.get", DefaultConfig, FALSE)>>
    /\ config = DefaultConfig
    /\ isActive
    /\ ret = Return(1)
    /\ \E e \in 1..Len(dom) :
        /\ Converted(dom, e)
        /\ dom[dom[e].childNodes[1]].href =
                Str(convertUncToUrl(ValidText, DEFAULT_SCHEME))

\* the read of a configUpdated message has rejected on a page that goes by
\* a stored configuration, which is held still
C37_Witness ==
    /\ pc = "listening"
    /\ calls = <<ApiCall("storage.sync.get", DefaultConfig, FALSE)>>
    /\ config # DefaultConfig
    /\ isActive

----------------------------------------------------------------------------
(* The content script and what the page adds later *)

\* the nodes made in the step that are in the list of the page's scope,
\* valid and allowed
EligibleAdded ==
    {n \in (Len(dom) + 1)..Len(dom') : n \in Eligible(dom', config, activeElements)}

\* the nodes the queued records hand to the observer's callback: the added
\* nodes and the nodes below them
Queued ==
    UNION {UNION {{Preorder(dom, records[m].addedNodes[k])[j] :
                        j \in 1..Len(Preorder(dom, records[m].addedNodes[k]))} :
                    k \in 1..Len(records[m].addedNodes)} :
            m \in 1..Len(records)}

\* C32: whenever the content script is active on a page, elements added to
\* the document afterwards that are eligible and allowed are eventually
\* converted, also when the page was inactive at initialization and became
\* active later through a configUpdated message. Stated as the two steps
\* the conversion of an added element is made of: an eligible and allowed
\* element added while the script is active is queued for the observer's
\* callback, and a run of the callback converts every queued element that
\* is eligible and allowed.
C32_AddedConverted ==
    [][/\ (PageAppends /\ isActive /\ EligibleAdded # {})
            => records' = Append(records, MutationRecord(BodyId, <<Len(dom) + 1>>))
       /\ MutationCallback
            => \A n \in Queued \cap Eligible(dom, config, activeElements) :
                    Converted(dom', n)]_vars

----------------------------------------------------------------------------
(* The URL list of the options page with several rows (specification
   SpecUrlList): the user loads the page and edits the list without saving *)

\* the rows of the URL list
MaxListRows == 2

\* the click on the add button, the list holding fewer than MaxListRows rows
AddRow ==
    /\ pc = "ready"
    /\ Len(activeUrlsState) < MaxListRows
    /\ Becomes(addUrlRow(ThisPage))
    /\ fn' = "none"
    /\ calls' = <<>>
    /\ UNCHANGED <<pc, args, ret, page, core, storage, tabs>>

NextUrlList ==
    \/ LoadSettings
    \/ TypeHtmlElements
    \/ TypeUrl
    \/ ToggleCheckbox
    \/ AddRow
    \/ RemoveUrlRow

SpecUrlList == InitOptions /\ [][NextUrlList]_vars

\* what a row shows: the text of its URL field and the elements checked
Shown(row) == [url |-> row.url, checked |-> CheckedValues(row.boxes)]

\* what the rows show, one after the other
ShownRows(rows) == [i \in 1..Len(rows) |-> Shown(rows[i])]

\* the sequence without its item i
WithoutItem(seq, i) == SubSeq(seq, 1, i - 1) \o SubSeq(seq, i + 1, Len(seq))

\* C35: addUrlRow and removeUrlRow(i) change only the row they add or
\* remove: the URL text and the checked elements shown in every other row,
\* edits not yet saved included, are the same after the operation as before;
\* addUrlRow with an empty HTML-elements list adds no row and leaves the list
\* unchanged.
C35_OtherRowsKept ==
    [][/\ AddRow
            => /\ Len(form'.rows) >= Len(form.rows)
               /\ SubSeq(ShownRows(form'.rows), 1, Len(form.rows))
                    = ShownRows(form.rows)
               /\ FieldEmpty
                    => form'.rows = form.rows /\ activeUrlsState' = activeUrlsState
       /\ RemoveUrlRow
            => \E i \in 1..Len(form.rows) :
                    ShownRows(form'.rows) = WithoutItem(ShownRows(form.rows), i)]_vars

----------------------------------------------------------------------------
(* updateIconForTab as the asynchronous function it is (specification
   SpecIcons): every await of a call is a step of its own, and the awaited
   calls of the browser API resolve in any order.  One tab is open; it
   navigates and the configuration changes while calls are under way.  The
   storage reads of this specification resolve. *)

\* the calls of updateIconForTab started in a run
MaxCalls == 2

\* an awaited call of the browser API made by the call number seq of
\* updateIconForTab(tabId, url); active is the value of the local constant
\* once it is computed
Awaited(api, tabId, url, seq, active) ==
    ApiCall(api, [tabId |-> tabId, url |-> url, seq |-> seq, active |-> active],
            FALSE)

\* updateIconForTab(tabId, url) up to its first await: the storage.sync.get
\* of loadConfig is under way
StartUpdateIconForTab(cs, tabId, url, seq) ==
    Append(cs, Awaited("storage.sync.get", tabId, url, seq, FALSE))

\* the calls with the call at k replaced by the calls next
Continue(cs, k, next) == SubSeq(cs, 1, k - 1) \o next \o SubSeq(cs, k + 1, Len(cs))

InitIcons ==
    /\ pc = "running"
    /\ fn = "none"
    /\ args = [tabId |-> 0, url |-> <<>>, seq |-> 0]
    /\ ret = NoRet
    /\ dom = EmptyDocument
    /\ ScriptLoaded
    /\ CoreLoaded
    /\ \E st \in BackgroundStores : storage = st
    /\ \E u \in {PageUrl, OtherUrl} : tabs = <<Tab(Str(u), TRUE, FALSE, "", "")>>
    /\ calls = <<>>
    /\ OptionsLoaded

\* tabs.onUpdated with changeInfo.url: the tab has gone to another URL and
\* handleTabUpdated starts updateIconForTab(tabId, tab.url)
TabNavigates ==
    /\ pc = "running"
    /\ args.seq < MaxCalls
    /\ \E t \in 1..Len(tabs), u \in {PageUrl, OtherUrl} :
        /\ tabs[t].url # Str(u)
        /\ tabs' = [tabs EXCEPT ![t].url = Str(u)]
        /\ calls' = StartUpdateIconForTab(calls, t, u, args.seq + 1)
        /\ args' = [tabId |-> t, url |-> u, seq |-> args.seq + 1]
    /\ fn' = "handleTabUpdated"
    /\ UNCHANGED <<pc, ret, page, core, storage, form, activeUrlsState, status>>

\* storage.onChanged for the sync area: the configuration is another one,
\* tabs.query has resolved with the tab and handleStorageChanged starts
\* updateIconForTab(tab.id, tab.url) (its tabs.sendMessage has no
\* continuation)
ConfigChanges ==
    /\ pc = "running"
    /\ args.seq < MaxCalls
    /\ \E st \in BackgroundStores :
        /\ st # storage
        /\ storage' = st
    /\ calls' = StartUpdateIconForTab(calls, 1, tabs[1].url.v, args.seq + 1)
    /\ args' = [tabId |-> 1, url |-> tabs[1].url.v, seq |-> args.seq + 1]
    /\ fn' = "handleStorageChanged"
    /\ UNCHANGED <<pc, ret, page, core, tabs, form, activeUrlsState, status>>

\* the storage.sync.get of a call resolves: loadConfig returns, active is
\* computed and action.setIcon is called, unless isUrlAllowed throws and the
\* call of updateIconForTab ends rejected
GetResolves ==
    /\ pc = "running"
    /\ \E k \in 1..Len(calls) :
        /\ calls[k].api = "storage.sync.get"
        /\ LET c == calls[k].arg
               cfg == loadConfig(storage, TRUE)
               active == isUrlAllowedOnEntries(c.url, cfg.activeUrls)
           IN  calls' = Continue(calls, k,
                    IF active.kind = "throw" THEN <<>>
                    ELSE <<Awaited("action.setIcon", c.tabId, c.url, c.seq,
                                   active.value)>>)
    /\ fn' = "updateIconForTab"
    /\ UNCHANGED <<pc, args, ret, page, core, storage, tabs, form, activeUrlsState, status>>

\* the action.setIcon of a call resolves: the tab has the icon and
\* action.setTitle is called
SetIconResolves ==
    /\ pc = "running"
    /\ \E k \in 1..Len(calls) :
        /\ calls[k].api = "action.setIcon"
        /\ LET c == calls[k].arg
           IN  /\ tabs' = [tabs EXCEPT ![c.tabId].icon =
                            IF c.active THEN ICONS_ACTIVE ELSE ICONS_INACTIVE]
               /\ calls' = Continue(calls, k,
                    <<Awaited("action.setTitle", c.tabId, c.url, c.seq, c.active)>>)
    /\ fn' = "updateIconForTab"
    /\ UNCHANGED <<pc, args, ret, page, core, storage, form, activeUrlsState, status>>

\* the action.setTitle of a call resolves: the tab has the title and the
\* call of updateIconForTab has ended
SetTitleResolves ==
    /\ pc = "running"
    /\ \E k \in 1..Len(calls) :
        /\ calls[k].api = "action.setTitle"
        /\ LET c == calls[k].arg
           IN  /\ tabs' = [tabs EXCEPT ![c.tabId].title =
                            IF c.active THEN TITLE_ACTIVE ELSE TITLE_INACTIVE]
               /\ calls' = Continue(calls, k, <<>>)
    /\ fn' = "updateIconForTab"
    /\ UNCHANGED <<pc, args, ret, page, core, storage, form, activeUrlsState, status>>

NextIcons ==
    \/ TabNavigates
    \/ ConfigChanges
    \/ GetResolves
    \/ SetIconResolves
    \/ SetTitleResolves

SpecIcons == InitIcons /\ [][NextIcons]_vars

\* C34: if two calls of updateIconForTab for the same tab are started one
\* after the other with different URLs, or across a change of the
\* configuration, then once both have completed the icon and the title of
\* the tab correspond to the URL of the later call and to the latest
\* configuration: an earlier call that finishes late never overwrites the
\* newer state.
C34_LaterCallWins ==
    (args.seq >= 2 /\ calls = <<>>)
    => LET tab == tabs[args.tabId]
       IN  IF InStoredScope(args.url, storage)
           THEN ShowsActive(tab)
           ELSE ShowsInactive(tab)

====
